---- MODULE Spec2Model ----
(***************************************************************************)
(* Model of the FHIR Bundler (pkg/fhir/bundler.go), of the allergy code     *)
(* convertor and the allergy generator (codedelement package) and of the   *)
(* HL7 message Builder used by tests (testhl7) of simhospital.             *)
(*                                                                         *)
(* A Bundler holds an identifier generator, the bundle type code it was    *)
(* configured with and two maps (locations, doctors) from value types to   *)
(* the reference of the resource created for them.  Generate(p) walks a    *)
(* PatientInfo and returns a Bundle.  Resources are modelled by their      *)
(* identifier and the references they hold; a reference is the pair of    *)
(* the resource type and the identifier it points at.                      *)
(***************************************************************************)
EXTENDS Integers, Sequences, FiniteSets, TLC

VARIABLES
    idGenerator,     \* b.idGenerator: the next identifier NewID hands out
    locations,       \* b.locations: map[ir.PatientLocation]*dpb.Reference
    doctors,         \* b.doctors: map[ir.Doctor]*dpb.Reference
    bundleTypeCode,  \* b.bundleTypeCode
    resolved,        \* the bundleType() calls made so far: the name given, what was returned
    ac,              \* b.ac: the Bundler's AllergyConvertor
    calls,           \* number of Generate calls made so far
    arg,             \* the argument of the last Generate call
    result,          \* outcome of the last Generate call: "none", "ok", "error", "panic"
    bundle,          \* the bundle returned by the last Generate call (Nil if none)
    lookups,         \* the location()/practitioner() calls of the last Generate, in order
    hc,              \* the config.HL7Config a convertor is built from (Nil if none)
    ret,             \* what the last call of a convertor constructor returned (Nil if none)
    paragraphs,      \* the arguments of a narrative() call (Nil if none)
    narr,            \* the *dpb.Narrative the call returned (Nil if none)
    timeIncrements,  \* *timeIncrements: the message_builder_time_increments flag
    currentControlID,\* h.currentControlID of the message Builder
    currentDate,     \* h.currentDate of the message Builder
    messages,        \* the buildMessage invocations made so far, in order
    allergyGenerator,\* g: the percentage, maxAllergies and allergies of an AllergyGenerator
    at,              \* where GenerateRandomDistinctAllergies is: "idle", "loop", "returned", "panic"
    allergyCount,    \* its local allergyCount
    selectedCodes,   \* its local selectedCodes
    generatedAllergies, \* its local generatedAllergies, the list it returns
    external,        \* whether the callers of Generate hold a mutex around each call
    holder,          \* the caller holding that mutex (Nil if none)
    callers,         \* the concurrent callers of Generate: what each is doing
    materialized     \* the Location and Practitioner resources the callers created

bundlerVars ==
    <<idGenerator, locations, doctors, bundleTypeCode, resolved, ac, calls, arg, result, bundle, lookups>>
convertorVars == <<hc, ret>>
narrativeVars == <<paragraphs, narr>>
builderVars == <<timeIncrements, currentControlID, currentDate, messages>>
generatorVars == <<allergyGenerator, at, allergyCount, selectedCodes, generatedAllergies>>
callerVars == <<external, holder, callers, materialized>>
vars == <<bundlerVars, convertorVars, narrativeVars, builderVars, generatorVars, callerVars>>

\* What the steps of one component leave alone.
nonBundlerVars == <<convertorVars, narrativeVars, builderVars, generatorVars, callerVars>>
nonGeneratorVars == <<bundlerVars, convertorVars, narrativeVars, builderVars, callerVars>>

\* A nil pointer.
Nil == [nil |-> TRUE]

\* A map lookup m[k] with its ok flag, and the map after m[k] = v.
Has(m, k) == k \in DOMAIN m
Put(m, k, v) == [x \in DOMAIN m \cup {k} |-> IF x = k THEN v ELSE m[x]]

\* The value of m[k] without the ok flag: the zero value for a key not in m.
Get(m, k, zero) == IF Has(m, k) THEN m[k] ELSE zero

(***************************************************************************)
(* Bounds of the model.                                                    *)
(***************************************************************************)
MaxCalls == 2            \* Generate calls on one Bundler
MaxEncounters == 2       \* len(p.Encounters)
MaxLocationHistory == 2  \* len(ec.LocationHistory)
MaxProcedures == 2       \* len(ec.Procedures)
MaxDiagnoses == 1        \* len(ec.Diagnoses)
MaxOrders == 1           \* len(ec.Orders)
MaxResults == 1          \* len(order.Results)
MaxAllergies == 2        \* len(p.Allergies)
MaxID == 6               \* identifiers one Bundler hands out in the model
MaxKeys == 2             \* canonical keys of one mapping of the HL7 configuration
MaxAliases == 1          \* codes listed under one canonical key
MaxParagraphs == 3       \* arguments of one narrative() call
MaxText == 4             \* characters of all arguments of one narrative() call together
MaxMessages == 11        \* BuildMessage invocations on one Builder
MaxTimeIncrement == 2    \* largest value of the message_builder_time_increments flag
MaxStartDate == 1        \* latest date a Builder is constructed with
MaxMaxAllergies == 3     \* largest d.Allergy.MaximumAllergies
MaxLookups == 2          \* locations and clinicians of the record of one concurrent caller
MaxResolved == 3         \* bundleType calls

(***************************************************************************)
(* The inputs: ir.PatientInfo values.                                      *)
(***************************************************************************)
SeqsUpTo(S, n) == UNION {[1..k -> S] : k \in 0..n}

\* constants.EncounterStatusFinished: the encounter status of the records.
EncounterStatusFinished == <<"F", "I", "N", "I", "S", "H", "E", "D">>

\* ir.PatientLocation and ir.Doctor are comparable structs used as map keys.
PatientLocations ==
    {[Poc |-> "ward1", Bed |-> "bed1"], [Poc |-> "ward1", Bed |-> "bed2"],
     [Poc |-> "ward2", Bed |-> "bed1"]}
Doctors ==
    {[ID |-> "id1", Surname |-> "smith"], [ID |-> "id1", Surname |-> "jones"],
     [ID |-> "id2", Surname |-> "smith"]}

\* Code strings are tuples of one-character strings, as strings.ToUpper and
\* the exact-match map lookups see them.
Persons == {[MRN |-> "mrn1", Address |-> [Type |-> <<"H", "O", "M", "E">>]]}
AllergyValues ==
    {[Type |-> <<"S", "V">>, Severity |-> <<"S", "V">>],
     [Type |-> <<"X">>, Severity |-> <<"S", "V">>]}
LocationHistories == [Location : PatientLocations \cup {Nil}]
DiagnosisOrProcedures == [Clinician : Doctors \cup {Nil}]
ResultValues == {[Value |-> "7"]}
OrderValues == [Results : SeqsUpTo(ResultValues, MaxResults)]

\* The size of a record: one for the patient and one for every allergy,
\* encounter, location-history entry, procedure, diagnosis, clinician, order
\* and result.  Generate calls NewID at most that many times.
RECURSIVE Sum(_, _)
Sum(costs, i) == IF i > Len(costs) THEN 0 ELSE costs[i] + Sum(costs, i + 1)

ClinicianCost(d) == IF d.Clinician = Nil THEN 1 ELSE 2
ItemsCost(items) == Sum([i \in DOMAIN items |-> ClinicianCost(items[i])], 1)
OrderCost(o) == 1 + Len(o.Results)
OrdersCost(orders) == Sum([i \in DOMAIN orders |-> OrderCost(orders[i])], 1)

\* The values of each field of an encounter that have size c.
LocationHistoriesOfCost(c) ==
    IF c <= MaxLocationHistory THEN [1..c -> LocationHistories] ELSE {}
ProceduresOfCost(c) ==
    {items \in SeqsUpTo(DiagnosisOrProcedures, MaxProcedures) : ItemsCost(items) = c}
DiagnosesOfCost(c) ==
    {items \in SeqsUpTo(DiagnosisOrProcedures, MaxDiagnoses) : ItemsCost(items) = c}
OrdersOfCost(c) ==
    {orders \in SeqsUpTo(OrderValues, MaxOrders) : OrdersCost(orders) = c}

\* The encounters of size n.
EncountersOfCost(n) ==
    UNION {[Status : {EncounterStatusFinished},
            LocationHistory : LocationHistoriesOfCost(c[1]),
            Procedures : ProceduresOfCost(c[2]),
            Diagnoses : DiagnosesOfCost(c[3]),
            Orders : OrdersOfCost(n - 1 - c[1] - c[2] - c[3])] :
           c \in {x \in (0..n) \X (0..n) \X (0..n) : x[1] + x[2] + x[3] <= n - 1}}

\* The sequences of at most k encounters that have size n together.
RECURSIVE EncounterSeqsOfCost(_, _)
EncounterSeqsOfCost(k, n) ==
    IF n = 0 THEN {<<>>}
    ELSE IF k = 0 THEN {}
    ELSE UNION {{<<ec>> \o rest : ec \in EncountersOfCost(c),
                                  rest \in EncounterSeqsOfCost(k - 1, n - c)} : c \in 1..n}

\* The PatientInfo values of size n that have a Person.
PatientInfosOfCost(n) ==
    UNION {[Person : Persons,
            Class : {"INPATIENT"},
            Allergies : [1..a -> AllergyValues],
            Encounters : EncounterSeqsOfCost(MaxEncounters, n - 1 - a)] :
           a \in {x \in 0..MaxAllergies : x <= n - 1}}

\* The PatientInfo values without a Person: Generate stops at the Person,
\* before it reads anything else of the record.
PatientInfosWithoutPerson ==
    [Person : {Nil},
     Class : {"INPATIENT"},
     Allergies : SeqsUpTo(AllergyValues, 1),
     Encounters : EncounterSeqsOfCost(1, 0) \cup EncounterSeqsOfCost(1, 1)]

\* PatientInfos[n]: the records a Bundler with n identifiers left is given.
PatientInfos ==
    [n \in 0..MaxID |->
        UNION {PatientInfosOfCost(c) : c \in 1..n}
            \cup (IF n >= 1 THEN PatientInfosWithoutPerson ELSE {})]

(***************************************************************************)
(* The allergy convertor (codedelement).  Strings that are upper-cased are *)
(* tuples of one-character strings.                                        *)
(***************************************************************************)
LowerCase ==
    <<"a", "b", "c", "d", "e", "f", "g", "h", "i", "j", "k", "l", "m",
      "n", "o", "p", "q", "r", "s", "t", "u", "v", "w", "x", "y", "z">>
UpperCase ==
    <<"A", "B", "C", "D", "E", "F", "G", "H", "I", "J", "K", "L", "M",
      "N", "O", "P", "Q", "R", "S", "T", "U", "V", "W", "X", "Y", "Z">>

\* strings.ToUpper
ToUpperRune(c) ==
    IF \E i \in DOMAIN LowerCase : LowerCase[i] = c
    THEN UpperCase[CHOOSE i \in DOMAIN LowerCase : LowerCase[i] = c]
    ELSE c
ToUpper(str) == [i \in DOMAIN str |-> ToUpperRune(str[i])]

\* hl7tofhirmap.DefaultAllergyIntoleranceSeverityCodeMap and
\* hl7tofhirmap.DefaultAllergyIntoleranceCategoryCodeMap: the canonical code
\* names and their codes.
DefaultAllergyIntoleranceSeverityCodeMap ==
    (<<"M", "I", "L", "D">> :> "AllergyIntoleranceSeverityCode_MILD")
    @@ (<<"M", "O", "D", "E", "R", "A", "T", "E">> :> "AllergyIntoleranceSeverityCode_MODERATE")
    @@ (<<"S", "E", "V", "E", "R", "E">> :> "AllergyIntoleranceSeverityCode_SEVERE")
DefaultAllergyIntoleranceCategoryCodeMap ==
    (<<"F", "O", "O", "D">> :> "AllergyIntoleranceCategoryCode_FOOD")
    @@ (<<"M", "E", "D", "I", "C", "A", "T", "I", "O", "N">> :> "AllergyIntoleranceCategoryCode_MEDICATION")
    @@ (<<"E", "N", "V", "I", "R", "O", "N", "M", "E", "N", "T">> :> "AllergyIntoleranceCategoryCode_ENVIRONMENT")
    @@ (<<"B", "I", "O", "L", "O", "G", "I", "C">> :> "AllergyIntoleranceCategoryCode_BIOLOGIC")

\* The configurations: hc.Mapping.FHIR.AllergySeverities and AllergyTypes map
\* canonical keys to the codes that stand for them.
SeverityKeys == {<<"m", "i", "l", "d">>, <<"S", "e", "v", "e", "r", "e">>, <<"H", "I", "G", "H">>}
TypeKeys == {<<"f", "o", "o", "d">>, <<"P", "E", "T">>}
Aliases == {<<"S", "V">>, <<"s", "v">>}
MappingsOver(keys) ==
    UNION {[K -> SeqsUpTo(Aliases, MaxAliases)] :
               K \in {S \in SUBSET keys : Cardinality(S) <= MaxKeys}}
HL7Configs == [AllergySeverities : MappingsOver(SeverityKeys), AllergyTypes : MappingsOver(TypeKeys)]

\* The orders a range over a map with key set K may visit the keys in.
RangeOrders(K) ==
    {o \in [1..Cardinality(K) -> K] : \A i, j \in DOMAIN o : i # j => o[i] # o[j]}

\* The loop storing every code upper-cased.
RECURSIVE putAll_ToUpper(_, _, _, _)
putAll_ToUpper(m, vs, c, i) ==
    IF i > Len(vs) THEN m ELSE putAll_ToUpper(Put(m, ToUpper(vs[i]), c), vs, c, i + 1)

\* for _, v := range vs { m[v] = c }
RECURSIVE putAll(_, _, _, _)
putAll(m, vs, c, i) == IF i > Len(vs) THEN m ELSE putAll(Put(m, vs[i], c), vs, c, i + 1)

\* newSeverityMap without the upper-casing of the key.
RECURSIVE severityLoop_NoToUpper(_, _, _, _)
severityLoop_NoToUpper(severities, order, i, m) ==
    IF i > Len(order) THEN [m |-> m, err |-> Nil]
    ELSE LET k == order[i]
         IN  IF ~Has(DefaultAllergyIntoleranceSeverityCodeMap, k)
             THEN [m |-> Nil, err |-> [invalid |-> k]]
             ELSE severityLoop_NoToUpper(severities, order, i + 1,
                      putAll(m, severities[k], DefaultAllergyIntoleranceSeverityCodeMap[k], 1))

\* The range loop of newSeverityMap from the i-th key visited on.
RECURSIVE severityLoop(_, _, _, _)
severityLoop(severities, order, i, m) ==
    IF i > Len(order) THEN [m |-> m, err |-> Nil]
    ELSE LET k == order[i]
         IN  IF ~Has(DefaultAllergyIntoleranceSeverityCodeMap, ToUpper(k))
             THEN [m |-> Nil, err |-> [invalid |-> k]]
             ELSE severityLoop(severities, order, i + 1,
                      putAll(m, severities[k], DefaultAllergyIntoleranceSeverityCodeMap[ToUpper(k)], 1))

\* newSeverityMap(severities), the range visiting the keys in the given order.
newSeverityMap(severities, order) == severityLoop(severities, order, 1, <<>>)

RECURSIVE typeLoop(_, _, _, _)
typeLoop(types, order, i, m) ==
    IF i > Len(order) THEN [m |-> m, err |-> Nil]
    ELSE LET k == order[i]
         IN  IF ~Has(DefaultAllergyIntoleranceCategoryCodeMap, ToUpper(k))
             THEN [m |-> Nil, err |-> [invalid |-> k]]
             ELSE typeLoop(types, order, i + 1,
                      putAll(m, types[k], DefaultAllergyIntoleranceCategoryCodeMap[ToUpper(k)], 1))

newTypeMap(types, order) == typeLoop(types, order, 1, <<>>)

\* AllergyConvertor{}
ZeroAllergyConvertor == [hl7ToFHIR |-> Nil]

NewAllergyConvertor(config, severityOrder, typeOrder) ==
    LET sm == newSeverityMap(config.AllergySeverities, severityOrder)
        tm == newTypeMap(config.AllergyTypes, typeOrder)
    IN  IF sm.err # Nil THEN [c |-> ZeroAllergyConvertor, err |-> sm.err]
        ELSE IF tm.err # Nil THEN [c |-> ZeroAllergyConvertor, err |-> tm.err]
        ELSE [c |-> [hl7ToFHIR |-> [AllergyIntoleranceSeverityCodeMap |-> sm.m,
                                    AllergyIntoleranceCategoryCodeMap |-> tm.m]],
              err |-> Nil]

(***************************************************************************)
(* The Bundler.  Its methods are operators on the record                   *)
(*   b = [idGenerator, locations, doctors, bundleTypeCode]                 *)
(* and return the updated b next to their results.                         *)
(***************************************************************************)
BundleTypeCode_BATCH == "BATCH"
BundleTypeCode_COLLECTION == "COLLECTION"
HTTPVerbCode_POST == "POST"

\* idGenerator.NewID(): the identifier handed out and the generator afterwards.
NewID(b) == [id |-> b.idGenerator, b |-> [b EXCEPT !.idGenerator = b.idGenerator + 1]]

\* fhircore.PatientRef(id), EncounterRef(id), ...: a reference to "<type>/<id>".
Ref(type, id) == [Type |-> type, Id |-> id]

\* fmt.Sprintf("%s/%s", url, id)
FullUrlOf(url, id) == [Type |-> url, Id |-> id]

\* The zero values of the code enumerations.

internalToFHIRAddressType ==
    (<<"H", "O", "M", "E">> :> "AddressUseCode_HOME")
    @@ (<<"W", "O", "R", "K">> :> "AddressUseCode_WORK")

internalToFHIREncounterStatus ==
    (<<"P", "L", "A", "N", "N", "E", "D">> :> "EncounterStatusCode_PLANNED")
    @@ (<<"I", "N", "_", "P", "R", "O", "G", "R", "E", "S", "S">> :> "EncounterStatusCode_IN_PROGRESS")
    @@ (<<"A", "R", "R", "I", "V", "E", "D">> :> "EncounterStatusCode_ARRIVED")
    @@ (EncounterStatusFinished :> "EncounterStatusCode_FINISHED")
    @@ (<<"C", "A", "N", "C", "E", "L", "L", "E", "D">> :> "EncounterStatusCode_CANCELLED")
    @@ (<<"U", "N", "K", "N", "O", "W", "N">> :> "EncounterStatusCode_UNKNOWN")

\* hl7tofhirmap.Convertor: the translation of a code by the built map.
AllergyIntoleranceSeverityCode(convertor, code) ==
    Get(convertor.AllergyIntoleranceSeverityCodeMap, code,
        "AllergyIntoleranceSeverityCode_INVALID_UNINITIALIZED")
AllergyIntoleranceCategoryCode(convertor, code) ==
    Get(convertor.AllergyIntoleranceCategoryCodeMap, code,
        "AllergyIntoleranceCategoryCode_INVALID_UNINITIALIZED")

\* AllergyConvertor.SeverityHL7ToFHIR and TypeHL7ToFHIR
SeverityHL7ToFHIR(c, severity) == AllergyIntoleranceSeverityCode(c.hl7ToFHIR, severity)
TypeHL7ToFHIR(c, allergyType) == AllergyIntoleranceCategoryCode(c.hl7ToFHIR, allergyType)

request(url) == [Url |-> url, Method |-> HTTPVerbCode_POST]

\* A Bundle_Entry built by a struct literal: no Request, no FullUrl yet.
NewEntry(resource) == [Resource |-> resource, Request |-> Nil, FullUrl |-> Nil]

\* addURL that sets the Request whatever the bundle type.
addURL_AlwaysRequest(b, entry, id, url) ==
    [entry EXCEPT !.Request = request(url), !.FullUrl = FullUrlOf(url, id)]

\* addURL that sets the FullUrl of the entries of Batch bundles only.
addURL_FullUrlInBatchOnly(b, entry, id, url) ==
    IF b.bundleTypeCode = BundleTypeCode_BATCH
    THEN [entry EXCEPT !.Request = request(url), !.FullUrl = FullUrlOf(url, id)]
    ELSE entry

addURL(b, entry, id, url) ==
    [entry EXCEPT !.Request = IF b.bundleTypeCode = BundleTypeCode_BATCH THEN request(url) ELSE @,
                  !.FullUrl = FullUrlOf(url, id)]

RECURSIVE addEntry(_, _)
addEntry(entries, new) ==
    IF new = <<>> THEN entries
    ELSE IF Head(new) = Nil THEN addEntry(entries, Tail(new))
    ELSE addEntry(Append(entries, Head(new)), Tail(new))

\* address that upper-cases the type before it looks it up.
address_ToUpper(a) ==
    <<[Use |-> Get(internalToFHIRAddressType, ToUpper(a.Type), "AddressUseCode_INVALID_UNINITIALIZED"),
       Type |-> "AddressTypeCode_BOTH"]>>

address(a) ==
    <<[Use |-> Get(internalToFHIRAddressType, a.Type, "AddressUseCode_INVALID_UNINITIALIZED"),
       Type |-> "AddressTypeCode_BOTH"]>>

patient(b, person) ==
    LET n == NewID(b)
        entry == NewEntry([Type |-> "Patient", Id |-> n.id, Identifier |-> person.MRN,
                           Address |-> address(person.Address)])
    IN  [b |-> n.b, entry |-> addURL(b, entry, n.id, "Patient"), ref |-> Ref("Patient", n.id)]

RECURSIVE allergiesFrom(_, _, _, _)
allergiesFrom(b, allergies, patientRef, i) ==
    IF i > Len(allergies) THEN [b |-> b, entries |-> <<>>]
    ELSE LET n == NewID(b)
             a == allergies[i]
             entry == NewEntry([Type |-> "AllergyIntolerance", Id |-> n.id,
                                Category |-> <<TypeHL7ToFHIR(b.ac, a.Type)>>,
                                Severity |-> SeverityHL7ToFHIR(b.ac, a.Severity),
                                Patient |-> patientRef])
             rest == allergiesFrom(n.b, allergies, patientRef, i + 1)
         IN  [b |-> rest.b,
              entries |-> <<addURL(b, entry, n.id, "AllergyIntolerance")>> \o rest.entries]

allergies(b, as, patientRef) == allergiesFrom(b, as, patientRef, 1)

encounter(b, ec, class) ==
    LET n == NewID(b)
        entry == NewEntry([Type |-> "Encounter", Id |-> n.id, Class |-> class,
                           Status |-> Get(internalToFHIREncounterStatus, ec.Status,
                                          "EncounterStatusCode_INVALID_UNINITIALIZED"),
                           Location |-> <<>>, Diagnosis |-> <<>>])
    IN  [b |-> n.b, entry |-> addURL(b, entry, n.id, "Encounter"), ref |-> Ref("Encounter", n.id)]

encounterLocation(locationRef) == [Location |-> locationRef]

encounterDiagnosis(ref) == [Condition |-> ref]

RECURSIVE observationsFrom(_, _, _, _, _)
observationsFrom(b, encounterRef, patientRef, order, i) ==
    IF i > Len(order.Results) THEN [b |-> b, entries |-> <<>>]
    ELSE LET n == NewID(b)
             entry == NewEntry([Type |-> "Observation", Id |-> n.id,
                                Encounter |-> encounterRef, Subject |-> patientRef])
             rest == observationsFrom(n.b, encounterRef, patientRef, order, i + 1)
         IN  [b |-> rest.b, entries |-> <<addURL(b, entry, n.id, "Observation")>> \o rest.entries]

observations(b, encounterRef, patientRef, order) ==
    observationsFrom(b, encounterRef, patientRef, order, 1)

\* location without the nil check: a Location is made for the nil pointer.
location_NoNilCheck(b, loc) ==
    IF Has(b.locations, loc) THEN [b |-> b, entry |-> Nil, ref |-> b.locations[loc]]
    ELSE LET n == NewID(b)
             entry == NewEntry([Type |-> "Location", Id |-> n.id, Name |-> loc])
             ref == Ref("Location", n.id)
         IN  [b |-> [n.b EXCEPT !.locations = Put(b.locations, loc, ref)],
              entry |-> addURL(b, entry, n.id, "Location"),
              ref |-> ref]

\* location that, for a location found in the map, returns an entry again.
location_EntryOnHit(b, loc) ==
    IF loc = Nil THEN [b |-> b, entry |-> Nil, ref |-> Nil]
    ELSE IF Has(b.locations, loc)
         THEN LET ref == b.locations[loc]
                  entry == NewEntry([Type |-> "Location", Id |-> ref.Id, Name |-> loc])
              IN  [b |-> b, entry |-> addURL(b, entry, ref.Id, "Location"), ref |-> ref]
    ELSE LET n == NewID(b)
             entry == NewEntry([Type |-> "Location", Id |-> n.id, Name |-> loc])
             ref == Ref("Location", n.id)
         IN  [b |-> [n.b EXCEPT !.locations = Put(b.locations, loc, ref)],
              entry |-> addURL(b, entry, n.id, "Location"),
              ref |-> ref]

\* location that never stores the reference it creates.
location_NoStore(b, loc) ==
    IF loc = Nil THEN [b |-> b, entry |-> Nil, ref |-> Nil]
    ELSE IF Has(b.locations, loc) THEN [b |-> b, entry |-> Nil, ref |-> b.locations[loc]]
    ELSE LET n == NewID(b)
             entry == NewEntry([Type |-> "Location", Id |-> n.id, Name |-> loc])
             ref == Ref("Location", n.id)
         IN  [b |-> n.b, entry |-> addURL(b, entry, n.id, "Location"), ref |-> ref]

location(b, loc) ==
    IF loc = Nil THEN [b |-> b, entry |-> Nil, ref |-> Nil]
    ELSE IF Has(b.locations, loc) THEN [b |-> b, entry |-> Nil, ref |-> b.locations[loc]]
    ELSE LET n == NewID(b)
             entry == NewEntry([Type |-> "Location", Id |-> n.id, Name |-> loc])
             ref == Ref("Location", n.id)
         IN  [b |-> [n.b EXCEPT !.locations = Put(b.locations, loc, ref)],
              entry |-> addURL(b, entry, n.id, "Location"),
              ref |-> ref]

procedure(b, pr, patientRef, practitionerRef, encounterRef) ==
    LET n == NewID(b)
        entry == NewEntry([Type |-> "Procedure", Id |-> n.id, Encounter |-> encounterRef,
                           Performer |-> practitionerRef, Subject |-> patientRef])
    IN  [b |-> n.b, entry |-> addURL(b, entry, n.id, "Procedure"), ref |-> Ref("Procedure", n.id)]

condition(b, d, patientRef, practitionerRef, encounterRef) ==
    LET n == NewID(b)
        entry == NewEntry([Type |-> "Condition", Id |-> n.id, Recorder |-> practitionerRef,
                           Encounter |-> encounterRef, Subject |-> patientRef])
    IN  [b |-> n.b, entry |-> addURL(b, entry, n.id, "Condition"), ref |-> Ref("Condition", n.id)]

\* practitioner that keys the doctors map by the doctor's ID alone.
practitioner_ByID(b, doctor) ==
    IF doctor = Nil THEN [b |-> b, entry |-> Nil, ref |-> Nil]
    ELSE LET known == {d \in DOMAIN b.doctors : d.ID = doctor.ID}
         IN  IF known # {} THEN [b |-> b, entry |-> Nil, ref |-> b.doctors[CHOOSE d \in known : TRUE]]
             ELSE LET n == NewID(b)
                      entry == NewEntry([Type |-> "Practitioner", Id |-> n.id,
                                         Identifier |-> doctor.ID, Family |-> doctor.Surname])
                      ref == Ref("Practitioner", n.id)
                  IN  [b |-> [n.b EXCEPT !.doctors = Put(b.doctors, doctor, ref)],
                       entry |-> addURL(b, entry, n.id, "Practitioner"),
                       ref |-> ref]

\* practitioner that creates a resource without looking the doctor up.
practitioner_NoLookup(b, doctor) ==
    IF doctor = Nil THEN [b |-> b, entry |-> Nil, ref |-> Nil]
    ELSE LET n == NewID(b)
             entry == NewEntry([Type |-> "Practitioner", Id |-> n.id,
                                Identifier |-> doctor.ID, Family |-> doctor.Surname])
             ref == Ref("Practitioner", n.id)
         IN  [b |-> [n.b EXCEPT !.doctors = Put(b.doctors, doctor, ref)],
              entry |-> addURL(b, entry, n.id, "Practitioner"),
              ref |-> ref]

practitioner(b, doctor) ==
    IF doctor = Nil THEN [b |-> b, entry |-> Nil, ref |-> Nil]
    ELSE IF Has(b.doctors, doctor) THEN [b |-> b, entry |-> Nil, ref |-> b.doctors[doctor]]
    ELSE LET n == NewID(b)
             entry == NewEntry([Type |-> "Practitioner", Id |-> n.id,
                                Identifier |-> doctor.ID, Family |-> doctor.Surname])
             ref == Ref("Practitioner", n.id)
         IN  [b |-> [n.b EXCEPT !.doctors = Put(b.doctors, doctor, ref)],
              entry |-> addURL(b, entry, n.id, "Practitioner"),
              ref |-> ref]

\* One location()/practitioner() call as seen by its caller: what was asked
\* for, the generator before and after, and what came back.
Lookup(kind, value, before, r) ==
    [kind |-> kind, value |-> value, idBefore |-> before.idGenerator,
     idAfter |-> r.b.idGenerator, entry |-> r.entry, ref |-> r.ref]

(***************************************************************************)
(* createBundle.  The loops thread s = [b, Entry, e, lookups]: the         *)
(* Bundler, bundle.Entry, the Encounter entry under construction (e        *)
(* aliases its resource) and the log of lookups.                           *)
(***************************************************************************)
RECURSIVE locationHistoryLoop(_, _, _)
locationHistoryLoop(s, ec, i) ==
    IF i > Len(ec.LocationHistory) THEN s
    ELSE LET lh == ec.LocationHistory[i]
             r == location(s.b, lh.Location)
         IN  locationHistoryLoop(
                 [b |-> r.b,
                  Entry |-> addEntry(s.Entry, <<r.entry>>),
                  e |-> [s.e EXCEPT !.Resource.Location = Append(@, encounterLocation(r.ref))],
                  lookups |-> Append(s.lookups, Lookup("Location", lh.Location, s.b, r))],
                 ec, i + 1)

\* The loop skipping a procedure equal to the one before it.
RECURSIVE proceduresLoop_SkipRepeated(_, _, _, _, _)
proceduresLoop_SkipRepeated(s, ec, patientRef, encounterRef, i) ==
    IF i > Len(ec.Procedures) THEN s
    ELSE IF i > 1 /\ ec.Procedures[i] = ec.Procedures[i - 1]
         THEN proceduresLoop_SkipRepeated(s, ec, patientRef, encounterRef, i + 1)
    ELSE LET pr == ec.Procedures[i]
             r == practitioner(s.b, pr.Clinician)
             q == procedure(r.b, pr, patientRef, r.ref, encounterRef)
         IN  proceduresLoop_SkipRepeated(
                 [b |-> q.b,
                  Entry |-> addEntry(addEntry(s.Entry, <<r.entry>>), <<q.entry>>),
                  e |-> [s.e EXCEPT !.Resource.Diagnosis = Append(@, encounterDiagnosis(q.ref))],
                  lookups |-> Append(s.lookups, Lookup("Practitioner", pr.Clinician, s.b, r))],
                 ec, patientRef, encounterRef, i + 1)

RECURSIVE proceduresLoop(_, _, _, _, _)
proceduresLoop(s, ec, patientRef, encounterRef, i) ==
    IF i > Len(ec.Procedures) THEN s
    ELSE LET pr == ec.Procedures[i]
             r == practitioner(s.b, pr.Clinician)
             q == procedure(r.b, pr, patientRef, r.ref, encounterRef)
         IN  proceduresLoop(
                 [b |-> q.b,
                  Entry |-> addEntry(addEntry(s.Entry, <<r.entry>>), <<q.entry>>),
                  e |-> [s.e EXCEPT !.Resource.Diagnosis = Append(@, encounterDiagnosis(q.ref))],
                  lookups |-> Append(s.lookups, Lookup("Practitioner", pr.Clinician, s.b, r))],
                 ec, patientRef, encounterRef, i + 1)

RECURSIVE diagnosesLoop(_, _, _, _, _)
diagnosesLoop(s, ec, patientRef, encounterRef, i) ==
    IF i > Len(ec.Diagnoses) THEN s
    ELSE LET d == ec.Diagnoses[i]
             r == practitioner(s.b, d.Clinician)
             q == condition(r.b, d, patientRef, r.ref, encounterRef)
         IN  diagnosesLoop(
                 [b |-> q.b,
                  Entry |-> addEntry(addEntry(s.Entry, <<r.entry>>), <<q.entry>>),
                  e |-> [s.e EXCEPT !.Resource.Diagnosis = Append(@, encounterDiagnosis(q.ref))],
                  lookups |-> Append(s.lookups, Lookup("Practitioner", d.Clinician, s.b, r))],
                 ec, patientRef, encounterRef, i + 1)

RECURSIVE ordersLoop(_, _, _, _, _)
ordersLoop(s, ec, patientRef, encounterRef, i) ==
    IF i > Len(ec.Orders) THEN s
    ELSE LET r == observations(s.b, encounterRef, patientRef, ec.Orders[i])
         IN  ordersLoop([s EXCEPT !.b = r.b, !.Entry = addEntry(s.Entry, r.entries)],
                        ec, patientRef, encounterRef, i + 1)

\* The loop adding the Encounter entry as soon as it is built, before the
\* location history, procedures and diagnoses are processed.
RECURSIVE encountersLoop_EncounterFirst(_, _, _, _)
encountersLoop_EncounterFirst(s, p, patientRef, i) ==
    IF i > Len(p.Encounters) THEN s
    ELSE LET ec == p.Encounters[i]
             enc == encounter(s.b, ec, p.Class)
             s0 == [s EXCEPT !.b = enc.b, !.e = enc.entry,
                             !.Entry = addEntry(s.Entry, <<enc.entry>>)]
             s1 == locationHistoryLoop(s0, ec, 1)
             s2 == proceduresLoop(s1, ec, patientRef, enc.ref, 1)
             s3 == diagnosesLoop(s2, ec, patientRef, enc.ref, 1)
             s5 == ordersLoop(s3, ec, patientRef, enc.ref, 1)
         IN  encountersLoop_EncounterFirst(s5, p, patientRef, i + 1)

RECURSIVE encountersLoop(_, _, _, _)
encountersLoop(s, p, patientRef, i) ==
    IF i > Len(p.Encounters) THEN s
    ELSE LET ec == p.Encounters[i]
             enc == encounter(s.b, ec, p.Class)
             s0 == [s EXCEPT !.b = enc.b, !.e = enc.entry]
             s1 == locationHistoryLoop(s0, ec, 1)
             s2 == proceduresLoop(s1, ec, patientRef, enc.ref, 1)
             s3 == diagnosesLoop(s2, ec, patientRef, enc.ref, 1)
             s4 == [s3 EXCEPT !.Entry = addEntry(s3.Entry, <<s3.e>>)]
             s5 == ordersLoop(s4, ec, patientRef, enc.ref, 1)
         IN  encountersLoop(s5, p, patientRef, i + 1)

\* createBundle that adds the allergies before the patient.
createBundle_AllergiesFirst(b, p) ==
    LET pat == patient(b, p.Person)
        al == allergies(pat.b, p.Allergies, pat.ref)
        s0 == [b |-> al.b,
               Entry |-> addEntry(addEntry(<<>>, al.entries), <<pat.entry>>),
               e |-> Nil,
               lookups |-> <<>>]
        s == encountersLoop(s0, p, pat.ref, 1)
    IN  [b |-> s.b,
         bundle |-> [Type |-> b.bundleTypeCode, Entry |-> s.Entry],
         lookups |-> s.lookups]

\* The Bundler after the call, the bundle and the lookups made.
createBundle(b, p) ==
    LET pat == patient(b, p.Person)
        al == allergies(pat.b, p.Allergies, pat.ref)
        s0 == [b |-> al.b,
               Entry |-> addEntry(addEntry(<<>>, <<pat.entry>>), al.entries),
               e |-> Nil,
               lookups |-> <<>>]
        s == encountersLoop(s0, p, pat.ref, 1)
    IN  [b |-> s.b,
         bundle |-> [Type |-> b.bundleTypeCode, Entry |-> s.Entry],
         lookups |-> s.lookups]

(***************************************************************************)
(* The state machine: one Bundler, Generate called on it again and again.  *)
(***************************************************************************)
Bundler ==
    [idGenerator |-> idGenerator, locations |-> locations, doctors |-> doctors,
     bundleTypeCode |-> bundleTypeCode, ac |-> ac]

\* Identifiers the Bundler may still hand out within the model's bound.
IDsLeft == MaxID - (idGenerator - 1)

\* The parts of the state that belong to a component not in use.
NoBundler ==
    /\ idGenerator = 1
    /\ locations = <<>>
    /\ doctors = <<>>
    /\ bundleTypeCode = BundleTypeCode_BATCH
    /\ resolved = <<>>
    /\ ac = ZeroAllergyConvertor
    /\ calls = 0
    /\ arg = Nil
    /\ result = "none"
    /\ bundle = Nil
    /\ lookups = <<>>
NoConvertor == hc = Nil /\ ret = Nil
NoNarrative == paragraphs = Nil /\ narr = Nil
NoBuilder ==
    /\ timeIncrements = 0
    /\ currentControlID = 0
    /\ currentDate = 0
    /\ messages = <<>>
NoGenerator ==
    /\ allergyGenerator = Nil
    /\ at = "idle"
    /\ allergyCount = 0
    /\ selectedCodes = {}
    /\ generatedAllergies = <<>>
NoCallers ==
    /\ external = FALSE
    /\ holder = Nil
    /\ callers = <<>>
    /\ materialized = <<>>

\* The configuration the Bundler's allergy convertor is built from.
BundlerHL7Config ==
    [AllergySeverities |-> (<<"m", "i", "l", "d">> :> <<<<"S", "V">>>>),
     AllergyTypes |-> (<<"f", "o", "o", "d">> :> <<<<"S", "V">>>>)]

\* A Bundler as constructed: no identifier handed out, empty maps.
NewBundler(config) ==
    /\ idGenerator = 1
    /\ locations = <<>>
    /\ doctors = <<>>
    /\ bundleTypeCode \in {BundleTypeCode_BATCH, BundleTypeCode_COLLECTION}
    /\ resolved = <<>>
    /\ \E so \in RangeOrders(DOMAIN config.AllergySeverities),
          to \in RangeOrders(DOMAIN config.AllergyTypes) :
           /\ NewAllergyConvertor(config, so, to).err = Nil
           /\ ac = NewAllergyConvertor(config, so, to).c
    /\ calls = 0
    /\ arg = Nil
    /\ result = "none"
    /\ bundle = Nil
    /\ lookups = <<>>

Init ==
    /\ NewBundler(BundlerHL7Config)
    /\ NoConvertor
    /\ NoNarrative
    /\ NoBuilder
    /\ NoGenerator
    /\ NoCallers

\* Generate without its nil check: createBundle dereferences the nil record.
GenerateNil_Unchecked ==
    /\ calls < MaxCalls
    /\ calls' = calls + 1
    /\ arg' = Nil
    /\ result' = "panic"
    /\ bundle' = Nil
    /\ lookups' = <<>>
    /\ UNCHANGED <<idGenerator, locations, doctors, bundleTypeCode, resolved, ac, nonBundlerVars>>

\* Generate(nil): the error return.
GenerateNil ==
    /\ calls < MaxCalls
    /\ calls' = calls + 1
    /\ arg' = Nil
    /\ result' = "error"
    /\ bundle' = Nil
    /\ lookups' = <<>>
    /\ UNCHANGED <<idGenerator, locations, doctors, bundleTypeCode, resolved, ac, nonBundlerVars>>

\* Generate(p) with p.Person nil: patient() takes an identifier and then
\* dereferences person, a nil pointer dereference that panics.
GeneratePanic(p) ==
    /\ calls < MaxCalls
    /\ p.Person = Nil
    /\ calls' = calls + 1
    /\ arg' = p
    /\ idGenerator' = NewID(Bundler).b.idGenerator
    /\ result' = "panic"
    /\ bundle' = Nil
    /\ lookups' = <<>>
    /\ UNCHANGED <<locations, doctors, bundleTypeCode, resolved, ac, nonBundlerVars>>

\* Generate(p) that returns createBundle(p).
GenerateBundle(p) ==
    /\ calls < MaxCalls
    /\ p.Person # Nil
    /\ LET out == createBundle(Bundler, p)
       IN  /\ calls' = calls + 1
           /\ arg' = p
           /\ idGenerator' = out.b.idGenerator
           /\ locations' = out.b.locations
           /\ doctors' = out.b.doctors
           /\ result' = "ok"
           /\ bundle' = out.bundle
           /\ lookups' = out.lookups
           /\ UNCHANGED <<bundleTypeCode, resolved, ac, nonBundlerVars>>

\* Generate: the three ways a call can go.
Next ==
    \/ GenerateNil
    \/ \E p \in PatientInfos[IDsLeft] : GeneratePanic(p)
    \/ \E p \in PatientInfos[IDsLeft] : GenerateBundle(p)

Spec == Init /\ [][Next]_vars

(***************************************************************************)
(* Generate on a new Bundler, of records that differ in the codes they     *)
(* carry: the address type, the encounter status, the type and severity of *)
(* the allergy.  Each record has one allergy and one encounter.            *)
(***************************************************************************)
AllergyCodes == Aliases \cup {<<"X">>}

CodedPatientInfos ==
    [Person : [MRN : {"mrn1"}, Address : [Type : {<<"H", "O", "M", "E">>, <<"h", "o", "m", "e">>,
                                                    <<"W", "O", "R", "K">>, <<"B", "I", "L", "L">>,
                                                    <<>>}]],
     Class : {"INPATIENT"},
     Allergies : [1..1 -> [Type : AllergyCodes, Severity : AllergyCodes]],
     Encounters : [1..1 -> [Status : {EncounterStatusFinished,
                                      <<"f", "i", "n", "i", "s", "h", "e", "d">>,
                                      <<"D", "O", "N", "E">>},
                            LocationHistory : {<<>>}, Procedures : {<<>>},
                            Diagnoses : {<<>>}, Orders : {<<>>}]]]

\* The Bundler is built from any configuration NewAllergyConvertor accepts.
InitCodes ==
    /\ \E config \in HL7Configs : NewBundler(config) /\ hc = config
    /\ ret = Nil
    /\ NoNarrative
    /\ NoBuilder
    /\ NoGenerator
    /\ NoCallers

\* The first Generate call on the Bundler.
GenerateCoded == calls = 0 /\ \E p \in CodedPatientInfos : GenerateBundle(p)

NextCodes == GenerateCoded

SpecCodes == InitCodes /\ [][NextCodes]_vars

(***************************************************************************)
(* narrative.  A string is a tuple of characters; the markup written       *)
(* around the text is a tuple of markup tokens.                            *)
(***************************************************************************)
LineBreak == "\n"

\* strings.Split(str, sep) for a separator of one character.
RECURSIVE Split(_, _)
Split(str, sep) ==
    IF \E i \in DOMAIN str : str[i] = sep
    THEN LET m == CHOOSE i \in DOMAIN str :
                      str[i] = sep /\ \A j \in 1..(i - 1) : str[j] # sep
         IN  <<SubSeq(str, 1, m - 1)>> \o Split(SubSeq(str, m + 1, Len(str)), sep)
    ELSE <<str>>

\* for _, s := range lines { fmt.Fprintf(&sb, "<p>%s</p>", s) }
RECURSIVE writeLines(_, _, _)
writeLines(sb, lines, i) ==
    IF i > Len(lines) THEN sb
    ELSE writeLines(sb \o <<"<p>">> \o lines[i] \o <<"</p>">>, lines, i + 1)

\* narrative that writes the empty paragraphs as well.
RECURSIVE writeParagraphs_NoSkip(_, _, _)
writeParagraphs_NoSkip(sb, ps, i) ==
    IF i > Len(ps) THEN sb
    ELSE writeParagraphs_NoSkip(writeLines(sb, Split(ps[i], LineBreak), 1), ps, i + 1)

\* The loop of narrative over its arguments, from the i-th on.
RECURSIVE writeParagraphs(_, _, _)
writeParagraphs(sb, ps, i) ==
    IF i > Len(ps) THEN sb
    ELSE IF ps[i] = <<>> THEN writeParagraphs(sb, ps, i + 1)
    ELSE writeParagraphs(writeLines(sb, Split(ps[i], LineBreak), 1), ps, i + 1)

narrative(ps) ==
    [Div |-> writeParagraphs(<<"<div>">>, ps, 1) \o <<"</div>">>,
     Status |-> "NarrativeStatusCode_GENERATED"]

\* The calls narrative(ps...) with k arguments of n characters together.
RECURSIVE ParagraphsOfSize(_, _)
ParagraphsOfSize(k, n) ==
    IF k = 0 THEN (IF n = 0 THEN {<<>>} ELSE {})
    ELSE UNION {{<<str>> \o rest : str \in [1..c -> {"A", "B", LineBreak}],
                                   rest \in ParagraphsOfSize(k - 1, n - c)} : c \in 0..n}

InitNarrative ==
    /\ paragraphs \in UNION {ParagraphsOfSize(k, n) : k \in 0..MaxParagraphs, n \in 0..MaxText}
    /\ narr = Nil
    /\ NoBundler
    /\ NoConvertor
    /\ NoBuilder
    /\ NoGenerator
    /\ NoCallers

CallNarrative ==
    /\ narr = Nil
    /\ narr' = narrative(paragraphs)
    /\ UNCHANGED <<paragraphs, bundlerVars, convertorVars, builderVars, generatorVars, callerVars>>

NextNarrative == CallNarrative

SpecNarrative == InitNarrative /\ [][NextNarrative]_vars

(***************************************************************************)
(* The HL7 message Builder.  Dates and durations are whole numbers of a    *)
(* time unit; a duration may be zero or negative.                          *)
(***************************************************************************)
\* h.MessageType: one of the types buildMessage has a case for, and the
\* type NewBuilderWithTime sets, for which it has none.
UnsetMessageType == "^"

\* strconv.FormatUint(n, 10)
DecimalDigits == <<"0", "1", "2", "3", "4", "5", "6", "7", "8", "9">>
RECURSIVE FormatUint(_)
FormatUint(n) ==
    IF n < Len(DecimalDigits) THEN <<DecimalDigits[n + 1]>>
    ELSE FormatUint(n \div Len(DecimalDigits)) \o <<DecimalDigits[(n % Len(DecimalDigits)) + 1]>>

\* nextMessageControlID: the identifier returned and the counter afterwards.
nextMessageControlID(current) == [id |-> FormatUint(current), currentControlID |-> current + 1]

\* incrementDate: the date afterwards.
incrementDate(date) == date + timeIncrements

\* NewBuilderWithTime(t), with the flag set to any duration.
InitBuilder ==
    /\ timeIncrements \in (0 - 1)..MaxTimeIncrement
    /\ currentControlID = 0
    /\ currentDate \in 0..MaxStartDate
    /\ messages = <<>>
    /\ NoBundler
    /\ NoConvertor
    /\ NoNarrative
    /\ NoGenerator
    /\ NoCallers

\* BuildMessage with h.MessageType = type: the date advances, the message
\* gets the next control identifier, and the message is built with both or,
\* for a type without a case, the call fails.
BuildMessage(type) ==
    /\ Len(messages) < MaxMessages
    /\ LET t == incrementDate(currentDate)
           next == nextMessageControlID(currentControlID)
       IN  /\ currentDate' = t
           /\ currentControlID' = next.currentControlID
           /\ messages' = Append(messages, [MessageType |-> type,
                                            MessageControlID |-> next.id,
                                            date |-> t,
                                            err |-> type = UnsetMessageType])
    /\ UNCHANGED <<timeIncrements, bundlerVars, convertorVars, narrativeVars, generatorVars, callerVars>>

NextBuilder == \E type \in {"ADT^A01", UnsetMessageType} : BuildMessage(type)

SpecBuilder == InitBuilder /\ [][NextBuilder]_vars

(***************************************************************************)
(* The AllergyGenerator.  GenerateRandomDistinctAllergies is taken one     *)
(* loop iteration at a time; every rand call is a choice.                  *)
(***************************************************************************)
\* rand.Intn(n): a number of [0, n).
RandIntn(n) == 0..(n - 1)

\* The coded elements g.Random() picks from: two of them share their ID.
CodedElements ==
    {[ID |-> "a1", Text |-> "nuts"], [ID |-> "a1", Text |-> "peanuts"],
     [ID |-> "a2", Text |-> "pollen"], [ID |-> "a3", Text |-> "latex"]}

\* NewAllergyGenerator over any configuration.
InitGenerator ==
    /\ allergyGenerator \in [percentage : {0, 1, 50, 99, 100},
                              maxAllergies : 0..MaxMaxAllergies,
                              allergies : SUBSET CodedElements \ {{}}]
    /\ at = "idle"
    /\ allergyCount = 0
    /\ selectedCodes = {}
    /\ generatedAllergies = <<>>
    /\ NoBundler
    /\ NoConvertor
    /\ NoNarrative
    /\ NoBuilder
    /\ NoCallers

\* The call up to the loop: the early return of the empty list, the panic of
\* rand.Intn for maxAllergies <= 0, or the choice of allergyCount.
CallGenerate ==
    /\ at = "idle"
    /\ \E ra \in RandIntn(100) :
           IF ra >= allergyGenerator.percentage
           THEN at' = "returned" /\ UNCHANGED allergyCount
           ELSE IF allergyGenerator.maxAllergies <= 0
                THEN at' = "panic" /\ UNCHANGED allergyCount
                ELSE /\ at' = "loop"
                     /\ allergyCount' \in {n + 1 : n \in RandIntn(allergyGenerator.maxAllergies)}
    /\ selectedCodes' = {}
    /\ generatedAllergies' = <<>>
    /\ UNCHANGED <<allergyGenerator, nonGeneratorVars>>

\* One iteration that appends whatever g.Random() returns.
Draw_NoCheck ==
    /\ at = "loop"
    /\ Len(generatedAllergies) < allergyCount
    /\ \E a \in allergyGenerator.allergies :
           /\ selectedCodes' = selectedCodes \cup {a.ID}
           /\ generatedAllergies' = Append(generatedAllergies, [Description |-> a])
    /\ UNCHANGED <<allergyGenerator, at, allergyCount, nonGeneratorVars>>

\* One iteration of the loop: a := g.Random() is appended unless its ID was
\* selected before.
Draw ==
    /\ at = "loop"
    /\ Len(generatedAllergies) < allergyCount
    /\ \E a \in allergyGenerator.allergies :
           IF a.ID \notin selectedCodes
           THEN /\ selectedCodes' = selectedCodes \cup {a.ID}
                /\ generatedAllergies' = Append(generatedAllergies, [Description |-> a])
           ELSE UNCHANGED <<selectedCodes, generatedAllergies>>
    /\ UNCHANGED <<allergyGenerator, at, allergyCount, nonGeneratorVars>>

\* The IDs of the coded elements g.Random() picks from.
PoolIDs == {a.ID : a \in allergyGenerator.allergies}

\* A loop that also ends when every ID of the pool has been selected.
ReturnAllergies_WhenExhausted ==
    /\ at = "loop"
    /\ Len(generatedAllergies) >= allergyCount \/ selectedCodes = PoolIDs
    /\ at' = "returned"
    /\ UNCHANGED <<allergyGenerator, allergyCount, selectedCodes, generatedAllergies,
                   nonGeneratorVars>>

\* The loop condition fails: return generatedAllergies.
ReturnAllergies ==
    /\ at = "loop"
    /\ Len(generatedAllergies) >= allergyCount
    /\ at' = "returned"
    /\ UNCHANGED <<allergyGenerator, allergyCount, selectedCodes, generatedAllergies,
                   nonGeneratorVars>>

NextGenerator ==
    \/ CallGenerate
    \/ Draw
    \/ ReturnAllergies

SpecGenerator == InitGenerator /\ [][NextGenerator]_vars

\* Fair random draws: while the pool holds an ID not yet selected, an
\* iteration that draws one comes eventually; a loop whose condition fails
\* returns.
FairSpecGenerator == SpecGenerator /\ WF_vars(Draw) /\ WF_vars(ReturnAllergies)

(***************************************************************************)
(* Two goroutines calling Generate on one Bundler.  A call is taken one    *)
(* step of location() or practitioner() at a time: the map lookup, the     *)
(* creation of the resource, the store into the map.  The callers either   *)
(* hold a mutex of their own around every call (external) or do not.       *)
(***************************************************************************)
Callers == {"c1", "c2"}

\* The locations and clinicians a record makes createBundle look up.
LookupItems ==
    [kind : {"Location"}, value : {l \in PatientLocations : l.Poc = "ward1"}]
        \cup [kind : {"Practitioner"}, value : {d \in Doctors : d.ID = "id2"}]

\* b.locations or b.doctors
MapOf(kind) == IF kind = "Location" THEN locations ELSE doctors

\* Whether a caller is inside Generate.
Active(c) == callers[c].pc \notin {"idle", "done", "fatal"}

InitCallers ==
    /\ external \in BOOLEAN
    /\ holder = Nil
    /\ callers = [c \in Callers |-> [pc |-> "idle", todo |-> <<>>, ref |-> Nil]]
    /\ materialized = <<>>
    /\ NewBundler(BundlerHL7Config)
    /\ NoConvertor
    /\ NoNarrative
    /\ NoBuilder
    /\ NoGenerator

\* Generate called without regard to the mutex.
EnterGenerate_Unlocked(c) ==
    /\ callers[c].pc = "idle"
    /\ \E todo \in SeqsUpTo(LookupItems, MaxLookups) :
           callers' = [callers EXCEPT ![c] = [pc |-> "lookup", todo |-> todo, ref |-> Nil]]
    /\ idGenerator' = NewID(Bundler).b.idGenerator
    /\ UNCHANGED <<holder, external, materialized>>
    /\ UNCHANGED <<locations, doctors, bundleTypeCode, resolved, ac, calls, arg, result, bundle, lookups>>
    /\ UNCHANGED <<convertorVars, narrativeVars, builderVars, generatorVars>>

\* A caller enters Generate, after taking the mutex if the callers use one:
\* patient() takes the first identifier.
EnterGenerate(c) ==
    /\ callers[c].pc = "idle"
    /\ external => holder = Nil
    /\ holder' = IF external THEN [caller |-> c] ELSE holder
    /\ \E todo \in SeqsUpTo(LookupItems, MaxLookups) :
           callers' = [callers EXCEPT ![c] = [pc |-> "lookup", todo |-> todo, ref |-> Nil]]
    /\ idGenerator' = NewID(Bundler).b.idGenerator
    /\ UNCHANGED <<external, materialized>>
    /\ UNCHANGED <<locations, doctors, bundleTypeCode, resolved, ac, calls, arg, result, bundle, lookups>>
    /\ UNCHANGED <<convertorVars, narrativeVars, builderVars, generatorVars>>

\* if ref, ok := b.locations[*location]; ok { return nil, ref }
LookupStep(c) ==
    /\ callers[c].pc = "lookup"
    /\ callers[c].todo # <<>>
    /\ LET item == Head(callers[c].todo)
       IN  IF Has(MapOf(item.kind), item.value)
           THEN callers' = [callers EXCEPT ![c].todo = Tail(@),
                                           ![c].ref = MapOf(item.kind)[item.value]]
           ELSE callers' = [callers EXCEPT ![c].pc = "create"]
    /\ UNCHANGED <<external, holder, materialized, bundlerVars>>
    /\ UNCHANGED <<convertorVars, narrativeVars, builderVars, generatorVars>>

\* id := b.idGenerator.NewID() and the resource and reference made with it.
CreateStep(c) ==
    /\ callers[c].pc = "create"
    /\ LET item == Head(callers[c].todo)
           n == NewID(Bundler)
       IN  /\ idGenerator' = n.b.idGenerator
           /\ callers' = [callers EXCEPT ![c].pc = "store", ![c].ref = Ref(item.kind, n.id)]
           /\ materialized' = Append(materialized,
                                      [kind |-> item.kind, value |-> item.value, id |-> n.id])
    /\ UNCHANGED <<external, holder>>
    /\ UNCHANGED <<locations, doctors, bundleTypeCode, resolved, ac, calls, arg, result, bundle, lookups>>
    /\ UNCHANGED <<convertorVars, narrativeVars, builderVars, generatorVars>>

\* b.locations[*location] = ref
StoreStep(c) ==
    /\ callers[c].pc = "store"
    /\ LET item == Head(callers[c].todo)
       IN  /\ locations' = IF item.kind = "Location"
                            THEN Put(locations, item.value, callers[c].ref) ELSE locations
           /\ doctors' = IF item.kind = "Practitioner"
                          THEN Put(doctors, item.value, callers[c].ref) ELSE doctors
    /\ callers' = [callers EXCEPT ![c].pc = "lookup", ![c].todo = Tail(@)]
    /\ UNCHANGED <<external, holder, materialized>>
    /\ UNCHANGED <<idGenerator, bundleTypeCode, resolved, ac, calls, arg, result, bundle, lookups>>
    /\ UNCHANGED <<convertorVars, narrativeVars, builderVars, generatorVars>>

\* Generate returns; the caller gives the mutex back.
ReturnStep(c) ==
    /\ callers[c].pc = "lookup"
    /\ callers[c].todo = <<>>
    /\ callers' = [callers EXCEPT ![c].pc = "done"]
    /\ holder' = IF holder = [caller |-> c] THEN Nil ELSE holder
    /\ UNCHANGED <<external, materialized, bundlerVars>>
    /\ UNCHANGED <<convertorVars, narrativeVars, builderVars, generatorVars>>

\* A store into a map that another goroutine is using at the same time is a
\* data race: the runtime may stop the program ("concurrent map writes").
ConcurrentMapAccess ==
    /\ \E c, d \in Callers :
           /\ c # d
           /\ callers[c].pc = "store"
           /\ Active(d)
           /\ callers[d].todo # <<>>
           /\ Head(callers[d].todo).kind = Head(callers[c].todo).kind
    /\ callers' = [c \in Callers |-> [callers[c] EXCEPT !.pc = "fatal"]]
    /\ UNCHANGED <<external, holder, materialized, bundlerVars>>
    /\ UNCHANGED <<convertorVars, narrativeVars, builderVars, generatorVars>>

NextCallers ==
    \/ \E c \in Callers : EnterGenerate(c)
    \/ \E c \in Callers : LookupStep(c)
    \/ \E c \in Callers : CreateStep(c)
    \/ \E c \in Callers : StoreStep(c)
    \/ \E c \in Callers : ReturnStep(c)
    \/ ConcurrentMapAccess

SpecCallers == InitCallers /\ [][NextCallers]_vars

(***************************************************************************)
(* bundleType, applied to the bundle type names of a configuration.        *)
(***************************************************************************)
\* Without the entry for the empty name.
bundleTypes_NoDefault ==
    ("BATCH" :> BundleTypeCode_BATCH) @@ ("COLLECTION" :> BundleTypeCode_COLLECTION)

\* bundleTypes: the keys are Batch, Collection and "".
bundleTypes ==
    ("BATCH" :> BundleTypeCode_BATCH)
    @@ ("COLLECTION" :> BundleTypeCode_COLLECTION)
    @@ ("" :> BundleTypeCode_BATCH)

\* bundleType(bundleType): the code and the error returned.
bundleType(name) ==
    IF Has(bundleTypes, name)
    THEN [code |-> bundleTypes[name], err |-> Nil]
    ELSE [code |-> "BundleTypeCode_INVALID_UNINITIALIZED",
          err |-> [error |-> "invalid bundle type, expected one of"]]

InitBundleType ==
    NoBundler /\ NoConvertor /\ NoNarrative /\ NoBuilder /\ NoGenerator /\ NoCallers

CallBundleType(name) ==
    /\ Len(resolved) < MaxResolved
    /\ resolved' = Append(resolved, [bundleType |-> name, ret |-> bundleType(name)])
    /\ UNCHANGED <<idGenerator, locations, doctors, bundleTypeCode, ac, calls, arg, result,
                   bundle, lookups, nonBundlerVars>>

NextBundleType ==
    \E name \in {"", "BATCH", "COLLECTION", "batch", "collection", "Batch", "TRANSACTION"} :
        CallBundleType(name)

SpecBundleType == InitBundleType /\ [][NextBundleType]_vars

(***************************************************************************)
(* The constructors, each applied once to a configuration.                 *)
(***************************************************************************)
InitConvertor ==
    /\ NoBundler
    /\ hc \in HL7Configs
    /\ ret = Nil
    /\ NoNarrative
    /\ NoBuilder
    /\ NoGenerator
    /\ NoCallers

CallNewSeverityMap ==
    /\ ret = Nil
    /\ \E order \in RangeOrders(DOMAIN hc.AllergySeverities) :
           LET out == newSeverityMap(hc.AllergySeverities, order)
           IN  /\ ret' = [fn |-> "newSeverityMap", severityOrder |-> order, typeOrder |-> <<>>,
                          value |-> out.m, err |-> out.err]
               /\ UNCHANGED <<hc, bundlerVars, narrativeVars, builderVars, generatorVars, callerVars>>

CallNewTypeMap ==
    /\ ret = Nil
    /\ \E order \in RangeOrders(DOMAIN hc.AllergyTypes) :
           LET out == newTypeMap(hc.AllergyTypes, order)
           IN  /\ ret' = [fn |-> "newTypeMap", severityOrder |-> <<>>, typeOrder |-> order,
                          value |-> out.m, err |-> out.err]
               /\ UNCHANGED <<hc, bundlerVars, narrativeVars, builderVars, generatorVars, callerVars>>

CallNewAllergyConvertor ==
    /\ ret = Nil
    /\ \E so \in RangeOrders(DOMAIN hc.AllergySeverities), to \in RangeOrders(DOMAIN hc.AllergyTypes) :
           LET out == NewAllergyConvertor(hc, so, to)
           IN  /\ ret' = [fn |-> "NewAllergyConvertor", severityOrder |-> so, typeOrder |-> to,
                          value |-> out.c, err |-> out.err]
               /\ UNCHANGED <<hc, bundlerVars, narrativeVars, builderVars, generatorVars, callerVars>>

NextConvertor ==
    \/ CallNewSeverityMap
    \/ CallNewTypeMap
    \/ CallNewAllergyConvertor

SpecConvertor == InitConvertor /\ [][NextConvertor]_vars

(***************************************************************************)
(* Reading a bundle.                                                       *)
(***************************************************************************)
\* The references a resource holds, nil ones left out.
RefsOf(r) ==
    (CASE r.Type = "AllergyIntolerance" -> {r.Patient}
       [] r.Type = "Encounter" ->
            {r.Location[i].Location : i \in DOMAIN r.Location}
                \cup {r.Diagnosis[i].Condition : i \in DOMAIN r.Diagnosis}
       [] r.Type = "Procedure" -> {r.Encounter, r.Performer, r.Subject}
       [] r.Type = "Condition" -> {r.Encounter, r.Recorder, r.Subject}
       [] r.Type = "Observation" -> {r.Encounter, r.Subject}
       [] OTHER -> {}) \ {Nil}

\* The positions of the entries of bdl whose resource a reference points at.
Targets(bdl, ref) ==
    {i \in DOMAIN bdl.Entry :
        bdl.Entry[i].Resource.Type = ref.Type /\ bdl.Entry[i].Resource.Id = ref.Id}

\* The positions of the entries of a resource type.
EntriesOfType(bdl, type) == {i \in DOMAIN bdl.Entry : bdl.Entry[i].Resource.Type = type}

\* The Encounter entries of a bundle, in order: the k-th one is the entry of
\* the k-th encounter of the record.
IsEncounter(entry) == entry.Resource.Type = "Encounter"
EncounterEntries(bdl) == SelectSeq(bdl.Entry, IsEncounter)

\* A step that is a Generate call returning a bundle.
Returned == calls' # calls /\ result' = "ok"

(***************************************************************************)
(* Claims.                                                                 *)
(***************************************************************************)

\* C1: every non-nil reference held by a resource of a returned bundle,
\* also of the bundles of the second and later Generate calls, points at a
\* resource that has an entry in that same bundle.
C1_NoDanglingReference ==
    result = "ok" =>
        \A i \in DOMAIN bundle.Entry :
            \A ref \in RefsOf(bundle.Entry[i].Resource) : Targets(bundle, ref) # {}

\* C2: Generate(nil) returns an error and no bundle, takes no identifier
\* and leaves the locations and doctors maps as they were.
C2_GenerateNilHasNoEffect ==
    [][(calls' # calls /\ arg' = Nil) =>
           /\ result' = "error"
           /\ bundle' = Nil
           /\ idGenerator' = idGenerator
           /\ locations' = locations
           /\ doctors' = doctors]_vars

\* Generate(nil) was called on a Bundler that had already stored references.
C2_Witness ==
    /\ calls = 2
    /\ arg = Nil
    /\ result = "error"
    /\ idGenerator > 1
    /\ DOMAIN locations # {}
    /\ DOMAIN doctors # {}

\* C3: Generate of a record whose Person is nil is rejected with an error
\* before traversal: no bundle, no identifier allocated.
C3_NilPersonRejected ==
    [][(calls' # calls /\ arg' # Nil /\ arg'.Person = Nil) =>
           /\ result' = "error"
           /\ bundle' = Nil
           /\ idGenerator' = idGenerator]_vars

\* C4: a returned bundle has exactly one Patient entry, and it is the first
\* entry, whatever the allergies and encounters of the record.
C4_OnePatientFirst ==
    result = "ok" =>
        /\ Cardinality(EntriesOfType(bundle, "Patient")) = 1
        /\ bundle.Entry[1].Resource.Type = "Patient"

\* A bundle of a record with an allergy and an encounter that has items.
C4_Witness ==
    /\ result = "ok"
    /\ Len(arg.Allergies) > 0
    /\ Len(arg.Encounters) > 0
    /\ Len(bundle.Entry) >= 5

\* C5: with an allocator that never repeats an identifier, no two entries
\* of a returned bundle have the same fullUrl, and every entry carries an
\* identifier allocated during this very call, one per entry.
C5_FreshUniqueFullUrl ==
    [][Returned =>
           /\ \A i, j \in DOMAIN bundle'.Entry :
                  i # j => /\ bundle'.Entry[i].FullUrl # bundle'.Entry[j].FullUrl
                           /\ bundle'.Entry[i].Resource.Id # bundle'.Entry[j].Resource.Id
           /\ \A i \in DOMAIN bundle'.Entry :
                  /\ bundle'.Entry[i].FullUrl # Nil
                  /\ bundle'.Entry[i].FullUrl.Id = bundle'.Entry[i].Resource.Id
                  /\ bundle'.Entry[i].Resource.Id \in idGenerator .. (idGenerator' - 1)]_vars

\* A bundle in whose construction a location or doctor was found in the map,
\* so that a reference was handed out without a new entry.
C5_Witness ==
    /\ result = "ok"
    /\ Len(bundle.Entry) >= 4
    /\ \E i \in DOMAIN lookups : lookups[i].value # Nil /\ lookups[i].entry = Nil

\* The positions <<i, j>> of the location-history entries of a record.
LocationPositions(p) ==
    UNION {{<<i, j>> : j \in DOMAIN p.Encounters[i].LocationHistory} : i \in DOMAIN p.Encounters}

\* C6: in one Generate call, two location-history entries (of one encounter
\* or of two) whose locations are equal field by field and not yet in the
\* locations map give exactly one Location entry in the bundle, and the
\* location-period entries of both carry the same reference, to that entry.
C6_OneLocationForEqualEntries ==
    [][Returned =>
           LET p == arg'
               ee == EncounterEntries(bundle')
               LocOf(x) == p.Encounters[x[1]].LocationHistory[x[2]].Location
               RefAt(x) == ee[x[1]].Resource.Location[x[2]].Location
               Named(l) == {k \in EntriesOfType(bundle', "Location") :
                               bundle'.Entry[k].Resource.Name = l}
           IN  \A x, y \in LocationPositions(p) :
                   (x # y /\ LocOf(x) # Nil /\ LocOf(x) = LocOf(y) /\ ~Has(locations, LocOf(x))) =>
                       /\ RefAt(x) # Nil
                       /\ RefAt(x) = RefAt(y)
                       /\ Cardinality(Named(LocOf(x))) = 1
                       /\ Targets(bundle', RefAt(x)) = Named(LocOf(x))]_vars

\* The first call gave two encounters a location-history entry each, for
\* the same location.
C6_Witness ==
    /\ calls = 1
    /\ result = "ok"
    /\ Len(arg.Encounters) = 2
    /\ \A i \in 1..2 : Len(arg.Encounters[i].LocationHistory) = 1
    /\ arg.Encounters[1].LocationHistory[1].Location # Nil
    /\ arg.Encounters[1].LocationHistory[1] = arg.Encounters[2].LocationHistory[1]
    /\ Cardinality(EntriesOfType(bundle, "Location")) = 1

\* The positions <<i, k>> of the procedures and diagnoses of a record: in
\* encounter i, k counts the procedures and then the diagnoses.
ItemPositions(p) ==
    UNION {{<<i, k>> : k \in 1..(Len(p.Encounters[i].Procedures) + Len(p.Encounters[i].Diagnoses))} :
               i \in DOMAIN p.Encounters}
IsProcedurePosition(p, x) == x[2] <= Len(p.Encounters[x[1]].Procedures)
ClinicianAt(p, x) ==
    IF IsProcedurePosition(p, x) THEN p.Encounters[x[1]].Procedures[x[2]].Clinician
    ELSE p.Encounters[x[1]].Diagnoses[x[2] - Len(p.Encounters[x[1]].Procedures)].Clinician

\* The practitioner reference held by the Procedure or Condition entry made
\* for the item at position x (the entry the encounter's x[2]-th diagnosis
\* link points at).
PractitionerRefAt(bdl, x) ==
    LET link == EncounterEntries(bdl)[x[1]].Resource.Diagnosis[x[2]].Condition
        k == CHOOSE k \in Targets(bdl, link) : TRUE
        r == bdl.Entry[k].Resource
    IN  IF r.Type = "Procedure" THEN r.Performer ELSE r.Recorder

\* The Practitioner entries made for doctor d.
PractitionersFor(bdl, d) ==
    {k \in EntriesOfType(bdl, "Practitioner") :
        /\ bdl.Entry[k].Resource.Identifier = d.ID
        /\ bdl.Entry[k].Resource.Family = d.Surname}

\* C7: in one Generate call on a Bundler with an empty doctors map, a
\* procedure and another procedure or diagnosis whose clinicians are equal
\* field by field give exactly one Practitioner entry, referenced by both;
\* two whose clinicians differ in a field give two Practitioner entries,
\* each item referencing its own.
C7_OnePractitionerPerDoctor ==
    [][(Returned /\ DOMAIN doctors = {}) =>
           LET p == arg'
           IN  \A x, y \in ItemPositions(p) :
                   (x # y /\ IsProcedurePosition(p, x)
                        /\ ClinicianAt(p, x) # Nil /\ ClinicianAt(p, y) # Nil) =>
                       LET dx == ClinicianAt(p, x)
                           dy == ClinicianAt(p, y)
                           rx == PractitionerRefAt(bundle', x)
                           ry == PractitionerRefAt(bundle', y)
                       IN  /\ rx # Nil /\ ry # Nil
                           /\ Cardinality(PractitionersFor(bundle', dx)) = 1
                           /\ Cardinality(PractitionersFor(bundle', dy)) = 1
                           /\ Targets(bundle', rx) = PractitionersFor(bundle', dx)
                           /\ Targets(bundle', ry) = PractitionersFor(bundle', dy)
                           /\ (dx = dy) = (rx = ry)]_vars

\* The first call had one encounter with two procedures by different
\* clinicians: two Practitioner entries.
C7_Witness ==
    /\ calls = 1
    /\ result = "ok"
    /\ Len(arg.Encounters) = 1
    /\ Len(arg.Encounters[1].Procedures) = 2
    /\ arg.Encounters[1].Procedures[1].Clinician # Nil
    /\ arg.Encounters[1].Procedures[2].Clinician # Nil
    /\ arg.Encounters[1].Procedures[1].Clinician # arg.Encounters[1].Procedures[2].Clinician
    /\ Cardinality(EntriesOfType(bundle, "Practitioner")) = 2

\* C8: the bundle's type is the one the Bundler was configured with; in a
\* Batch bundle every entry has a request with method POST and the resource
\* type name of its payload as url; in any other bundle no entry has one.
C8_RequestIffBatch ==
    result = "ok" =>
        /\ bundle.Type = bundleTypeCode
        /\ \A i \in DOMAIN bundle.Entry :
               IF bundle.Type = BundleTypeCode_BATCH
               THEN bundle.Entry[i].Request =
                        [Url |-> bundle.Entry[i].Resource.Type, Method |-> HTTPVerbCode_POST]
               ELSE bundle.Entry[i].Request = Nil

\* A Collection bundle with entries of four resource types.
C8_Witness ==
    /\ result = "ok"
    /\ bundle.Type = BundleTypeCode_COLLECTION
    /\ Cardinality({bundle.Entry[i].Resource.Type : i \in DOMAIN bundle.Entry}) >= 4

\* The stored reference of every key of m is the same in n.
Kept(m, n) == \A k \in DOMAIN m : k \in DOMAIN n /\ n[k] = m[k]

\* C9: over any sequence of Generate calls, the first location() or
\* practitioner() call for a value takes one identifier, returns a new
\* entry and its reference and stores the reference; every later call for an
\* equal value returns the stored reference, no entry, and takes no
\* identifier.  A stored reference is never replaced or removed.
C9_GetOrCreate ==
    [][(calls' # calls) =>
           /\ Kept(locations, locations')
           /\ Kept(doctors, doctors')
           /\ \A i \in DOMAIN lookups' :
                  LET lk == lookups'[i]
                      before == IF lk.kind = "Location" THEN locations ELSE doctors
                      after == IF lk.kind = "Location" THEN locations' ELSE doctors'
                      earlier == {j \in 1..(i - 1) :
                                     lookups'[j].kind = lk.kind /\ lookups'[j].value = lk.value}
                  IN  lk.value # Nil =>
                          IF ~Has(before, lk.value) /\ earlier = {}
                          THEN /\ lk.idAfter = lk.idBefore + 1
                               /\ lk.entry # Nil
                               /\ lk.entry.Resource.Type = lk.kind
                               /\ lk.entry.Resource.Id = lk.idBefore
                               /\ lk.ref = Ref(lk.kind, lk.idBefore)
                               /\ Has(after, lk.value)
                               /\ after[lk.value] = lk.ref
                          ELSE /\ lk.idAfter = lk.idBefore
                               /\ lk.entry = Nil
                               /\ lk.ref = after[lk.value]
                               /\ Has(before, lk.value) => lk.ref = before[lk.value]
                               /\ \A j \in earlier : lk.ref = lookups'[j].ref]_vars

\* In the second call a value stored by the first call was asked for again.
C9_Witness ==
    /\ calls = 2
    /\ result = "ok"
    /\ \E i \in DOMAIN lookups :
           /\ lookups[i].value # Nil
           /\ lookups[i].entry = Nil
           /\ lookups[i].ref.Id < bundle.Entry[1].Resource.Id

\* The configured keys that match no key of the canonical table when
\* upper-cased.
InvalidKeys(table, mapping) ==
    {k \in DOMAIN mapping : ~(\E c \in DOMAIN table : ToUpper(k) = c)}
InvalidSeverityKeys == InvalidKeys(DefaultAllergyIntoleranceSeverityCodeMap, hc.AllergySeverities)
InvalidTypeKeys == InvalidKeys(DefaultAllergyIntoleranceCategoryCodeMap, hc.AllergyTypes)

\* C10: newSeverityMap, newTypeMap and NewAllergyConvertor fail if and only
\* if some configured canonical key matches no member of the canonical set
\* after upper-casing, whatever order the keys are visited in; on failure
\* they return a nil map, or the zero AllergyConvertor, and on success a map,
\* or a convertor holding both maps.
C10_BuildFailsIffInvalidKey ==
    ret # Nil =>
        LET invalid == CASE ret.fn = "newSeverityMap" -> InvalidSeverityKeys
                         [] ret.fn = "newTypeMap" -> InvalidTypeKeys
                         [] OTHER -> InvalidSeverityKeys \cup InvalidTypeKeys
            zero == IF ret.fn = "NewAllergyConvertor" THEN ZeroAllergyConvertor ELSE Nil
        IN  /\ (ret.err # Nil) = (invalid # {})
            /\ ret.err # Nil => ret.value = zero
            /\ ret.err = Nil => ret.value # zero

\* NewAllergyConvertor failed on a severity key visited after a valid key
\* whose codes had already been put into the map.
C10_Witness ==
    /\ ret # Nil
    /\ ret.fn = "NewAllergyConvertor"
    /\ ret.err # Nil
    /\ ret.value = ZeroAllergyConvertor
    /\ Len(ret.severityOrder) = 2
    /\ ret.severityOrder[1] \notin InvalidSeverityKeys
    /\ ret.severityOrder[2] \in InvalidSeverityKeys
    /\ Len(hc.AllergySeverities[ret.severityOrder[1]]) > 0

(***************************************************************************)
(* The codes of a bundle.                                                  *)
(***************************************************************************)
\* The resource of the only entry of a type.
TheResource(bdl, type) == bdl.Entry[CHOOSE i \in EntriesOfType(bdl, type) : TRUE].Resource

\* The codes listed under the keys of a mapping of the configuration.
ConfiguredCodes(mapping) ==
    UNION {{mapping[k][i] : i \in DOMAIN mapping[k]} : k \in DOMAIN mapping}

\* C11: translating a code that was not registered (an address type or
\* encounter status that is no key of the lookup table, an allergy severity
\* or type that is no key of the built map) gives the INVALID_UNINITIALIZED
\* value of the enumeration and no error: Generate returns a bundle with the
\* Patient, AllergyIntolerance and Encounter entries, carrying that code.
C11_UnregisteredGivesSentinel ==
    calls > 0 =>
        /\ result = "ok"
        /\ \A type \in {"Patient", "AllergyIntolerance", "Encounter"} :
               Cardinality(EntriesOfType(bundle, type)) = 1
        /\ LET a == arg.Allergies[1]
               maps == ac.hl7ToFHIR
               al == TheResource(bundle, "AllergyIntolerance")
           IN  /\ ~Has(internalToFHIRAddressType, arg.Person.Address.Type) =>
                      TheResource(bundle, "Patient").Address[1].Use
                          = "AddressUseCode_INVALID_UNINITIALIZED"
               /\ ~Has(internalToFHIREncounterStatus, arg.Encounters[1].Status) =>
                      TheResource(bundle, "Encounter").Status
                          = "EncounterStatusCode_INVALID_UNINITIALIZED"
               /\ ~Has(maps.AllergyIntoleranceSeverityCodeMap, a.Severity) =>
                      al.Severity = "AllergyIntoleranceSeverityCode_INVALID_UNINITIALIZED"
               /\ ~Has(maps.AllergyIntoleranceCategoryCodeMap, a.Type) =>
                      al.Category = <<"AllergyIntoleranceCategoryCode_INVALID_UNINITIALIZED">>

\* A bundle of a record none of whose four codes was registered, on a
\* Bundler whose maps hold other codes.
C11_Witness ==
    /\ result = "ok"
    /\ arg.Person.Address.Type = <<"h", "o", "m", "e">>
    /\ ~Has(internalToFHIREncounterStatus, arg.Encounters[1].Status)
    /\ DOMAIN ac.hl7ToFHIR.AllergyIntoleranceSeverityCodeMap # {}
    /\ DOMAIN ac.hl7ToFHIR.AllergyIntoleranceCategoryCodeMap # {}
    /\ ~Has(ac.hl7ToFHIR.AllergyIntoleranceSeverityCodeMap, arg.Allergies[1].Severity)
    /\ ~Has(ac.hl7ToFHIR.AllergyIntoleranceCategoryCodeMap, arg.Allergies[1].Type)
    /\ TheResource(bundle, "Patient").Address[1].Use = "AddressUseCode_INVALID_UNINITIALIZED"
    /\ TheResource(bundle, "AllergyIntolerance").Severity
           = "AllergyIntoleranceSeverityCode_INVALID_UNINITIALIZED"

\* C12 as stated: two codes that differ only in letter case translate to the
\* same code, so the address type and the allergy severity and type of the
\* record translate to what their upper-cased and every other spelling of
\* them translates to.
C12_CaseInsensitive ==
    result = "ok" =>
        LET a == arg.Allergies[1]
            al == TheResource(bundle, "AllergyIntolerance")
        IN  /\ TheResource(bundle, "Patient").Address[1].Use
                   = Get(internalToFHIRAddressType, ToUpper(arg.Person.Address.Type),
                         "AddressUseCode_INVALID_UNINITIALIZED")
            /\ \A code \in AllergyCodes :
                   ToUpper(code) = ToUpper(a.Severity) =>
                       al.Severity = SeverityHL7ToFHIR(ac, code)
            /\ \A code \in AllergyCodes :
                   ToUpper(code) = ToUpper(a.Type) =>
                       al.Category = <<TypeHL7ToFHIR(ac, code)>>

\* C12 amended: translation matches codes exactly.  An address type gets a
\* code other than INVALID_UNINITIALIZED exactly when it is "HOME" or "WORK"
\* as written, an encounter status exactly when it is one of the six status
\* constants as written, and the maps built from the configuration have as
\* keys exactly the configured codes as written; only the canonical key a
\* code is listed under is upper-cased.
C12_ExactMatch ==
    result = "ok" =>
        LET type == arg.Person.Address.Type
            status == arg.Encounters[1].Status
            maps == ac.hl7ToFHIR
        IN  /\ (TheResource(bundle, "Patient").Address[1].Use # "AddressUseCode_INVALID_UNINITIALIZED")
                   = (type \in {<<"H", "O", "M", "E">>, <<"W", "O", "R", "K">>})
            /\ (TheResource(bundle, "Encounter").Status # "EncounterStatusCode_INVALID_UNINITIALIZED")
                   = (status \in {<<"P", "L", "A", "N", "N", "E", "D">>,
                                  <<"I", "N", "_", "P", "R", "O", "G", "R", "E", "S", "S">>,
                                  <<"A", "R", "R", "I", "V", "E", "D">>,
                                  EncounterStatusFinished,
                                  <<"C", "A", "N", "C", "E", "L", "L", "E", "D">>,
                                  <<"U", "N", "K", "N", "O", "W", "N">>})
            /\ DOMAIN maps.AllergyIntoleranceSeverityCodeMap = ConfiguredCodes(hc.AllergySeverities)
            /\ DOMAIN maps.AllergyIntoleranceCategoryCodeMap = ConfiguredCodes(hc.AllergyTypes)
            /\ \A k \in DOMAIN hc.AllergySeverities :
                   ToUpper(k) \in DOMAIN DefaultAllergyIntoleranceSeverityCodeMap

\* The address type "home" got the INVALID_UNINITIALIZED code, and the
\* severity map holds the code "sv" but not "SV".
C12_Witness ==
    /\ result = "ok"
    /\ arg.Person.Address.Type = <<"h", "o", "m", "e">>
    /\ TheResource(bundle, "Patient").Address[1].Use = "AddressUseCode_INVALID_UNINITIALIZED"
    /\ DOMAIN ac.hl7ToFHIR.AllergyIntoleranceSeverityCodeMap = {<<"s", "v">>}
    /\ \E k \in DOMAIN hc.AllergySeverities : k # ToUpper(k)

(***************************************************************************)
(* Reading a narrative.                                                    *)
(***************************************************************************)
\* The contents of the paragraph elements of a container, in order.
RECURSIVE ParagraphElements(_)
ParagraphElements(div) ==
    IF ~(\E i \in DOMAIN div : div[i] = "<p>") THEN <<>>
    ELSE LET i == CHOOSE i \in DOMAIN div : div[i] = "<p>" /\ \A k \in 1..(i - 1) : div[k] # "<p>"
             j == CHOOSE j \in (i + 1)..Len(div) :
                      div[j] = "</p>" /\ \A k \in (i + 1)..(j - 1) : div[k] # "</p>"
         IN  <<SubSeq(div, i + 1, j - 1)>> \o ParagraphElements(SubSeq(div, j + 1, Len(div)))

\* The number of lines of a string: one more than its line breaks.

\* The lines of the non-empty strings among the first i of ps, counted.
RECURSIVE LinesBefore(_, _)
LinesBefore(ps, i) ==
    IF i = 0 THEN 0
    ELSE LinesBefore(ps, i - 1) + (IF ps[i] = <<>> THEN 0 ELSE 1 + Cardinality({k \in DOMAIN ps[i] : ps[i][k] = LineBreak}))

\* The lines els[from..to] with a line break between each two.
RECURSIVE Joined(_, _, _)
Joined(els, from, to) ==
    IF from > to THEN <<>>
    ELSE IF from = to THEN els[from]
    ELSE els[from] \o <<LineBreak>> \o Joined(els, from + 1, to)

\* C13: narrative(paragraphs) returns a container marked GENERATED whose
\* paragraph elements are, in order, the lines of the non-empty arguments:
\* no element holds a line break, the elements of an argument joined by
\* line breaks give the argument back, an empty argument has no element,
\* and the number of elements is the number of lines of the non-empty
\* arguments together.
C13_NarrativeParagraphs ==
    narr # Nil =>
        LET els == ParagraphElements(narr.Div)
        IN  /\ narr.Status = "NarrativeStatusCode_GENERATED"
            /\ Head(narr.Div) = "<div>"
            /\ narr.Div[Len(narr.Div)] = "</div>"
            /\ Len(narr.Div) = 2 + 2 * Len(els) + Sum([k \in DOMAIN els |-> Len(els[k])], 1)
            /\ Len(els) = LinesBefore(paragraphs, Len(paragraphs))
            /\ \A k \in DOMAIN els : \A x \in DOMAIN els[k] : els[k][x] # LineBreak
            /\ \A i \in DOMAIN paragraphs :
                   paragraphs[i] # <<>> =>
                       Joined(els, LinesBefore(paragraphs, i - 1) + 1, LinesBefore(paragraphs, i))
                           = paragraphs[i]

\* narrative("A\nB", "", "A") returned the three paragraphs A, B, A.
C13_Witness ==
    /\ narr # Nil
    /\ paragraphs = <<<<"A", LineBreak, "B">>, <<>>, <<"A">>>>
    /\ ParagraphElements(narr.Div) = <<<<"A">>, <<"B">>, <<"A">>>>

(***************************************************************************)
(* The entries of one encounter.                                           *)
(***************************************************************************)
\* The position of the Encounter entry of the k-th encounter of the record.
EncounterPosition(bdl, k) ==
    CHOOSE i \in DOMAIN bdl.Entry :
        /\ IsEncounter(bdl.Entry[i])
        /\ Cardinality({j \in 1..i : IsEncounter(bdl.Entry[j])}) = k

\* The positions of the entries of a type that reference an encounter.
EntriesUnder(bdl, type, encounterRef) ==
    {i \in EntriesOfType(bdl, type) : bdl.Entry[i].Resource.Encounter = encounterRef}

\* The k-th item of the procedures followed by the diagnoses of an encounter.
ItemAt(ec, j) ==
    IF j <= Len(ec.Procedures) THEN ec.Procedures[j] ELSE ec.Diagnoses[j - Len(ec.Procedures)]

\* C14: the Encounter entry of every encounter comes after every Location
\* entry its location list references, after every Procedure and Condition
\* entry of the encounter and the Practitioner entries these reference, and
\* before every Observation entry of the encounter.  Its diagnosis list
\* holds one link per procedure followed by one per diagnosis, in record
\* order: the j-th link references the j-th of the Procedure and Condition
\* entries of the encounter, a Procedure for a procedure and a Condition for
\* a diagnosis, made for the clinician of that item.
C14_EncounterAfterItsItems ==
    result = "ok" =>
        \A k \in DOMAIN arg.Encounters :
            LET ec == arg.Encounters[k]
                pos == EncounterPosition(bundle, k)
                e == bundle.Entry[pos].Resource
                ref == Ref("Encounter", e.Id)
                items == EntriesUnder(bundle, "Procedure", ref) \cup EntriesUnder(bundle, "Condition", ref)
                PractitionerOf(r) == IF r.Type = "Procedure" THEN r.Performer ELSE r.Recorder
            IN  /\ \A i \in items : i < pos
                /\ \A i \in items :
                       PractitionerOf(bundle.Entry[i].Resource) # Nil =>
                           \A x \in Targets(bundle, PractitionerOf(bundle.Entry[i].Resource)) :
                               x < i
                /\ \A l \in DOMAIN e.Location :
                       e.Location[l].Location # Nil =>
                           \A x \in Targets(bundle, e.Location[l].Location) : x < pos
                /\ \A i \in EntriesUnder(bundle, "Observation", ref) : i > pos
                /\ Cardinality(EntriesUnder(bundle, "Observation", ref))
                       = Sum([o \in DOMAIN ec.Orders |-> Len(ec.Orders[o].Results)], 1)
                /\ Len(e.Diagnosis) = Len(ec.Procedures) + Len(ec.Diagnoses)
                /\ Cardinality(items) = Len(e.Diagnosis)
                /\ \A j \in DOMAIN e.Diagnosis :
                       LET t == Targets(bundle, e.Diagnosis[j].Condition)
                       IN  /\ Cardinality(t) = 1
                           /\ t \subseteq items
                           /\ Cardinality({i \in items : i <= CHOOSE x \in t : TRUE}) = j
                           /\ \A x \in t :
                                  LET r == bundle.Entry[x].Resource
                                      d == ItemAt(ec, j).Clinician
                                  IN  /\ r.Type = IF j <= Len(ec.Procedures)
                                                    THEN "Procedure" ELSE "Condition"
                                      /\ PractitionerOf(r) = IF d = Nil THEN Nil ELSE doctors[d]

\* A bundle of one encounter with a procedure by a clinician and a result:
\* Patient, Practitioner, Procedure, Encounter, Observation.
C14_Witness ==
    /\ result = "ok"
    /\ Len(arg.Encounters) = 1
    /\ Len(arg.Encounters[1].Procedures) = 1
    /\ arg.Encounters[1].Procedures[1].Clinician # Nil
    /\ [i \in DOMAIN bundle.Entry |-> bundle.Entry[i].Resource.Type]
           = <<"Patient", "Practitioner", "Procedure", "Encounter", "Observation">>
    /\ Len(bundle.Entry[4].Resource.Diagnosis) = 1

\* The names of the resource types of the entries.

\* C15: every entry of a returned bundle, Batch or Collection, has the
\* fullUrl "<type>/<id>" made of the type name of its own resource, one of
\* the eight resource types, and of the id stored in that resource.
C15_FullUrlOfOwnResource ==
    result = "ok" =>
        \A i \in DOMAIN bundle.Entry :
            LET r == bundle.Entry[i].Resource
            IN  /\ r.Type \in {"Patient", "AllergyIntolerance", "Encounter", "Location",
                               "Procedure", "Condition", "Observation", "Practitioner"}
                /\ bundle.Entry[i].FullUrl = FullUrlOf(r.Type, r.Id)

\* The second bundle of a Bundler making Collection bundles, with a
\* Practitioner entry that has its fullUrl.
C15_Witness ==
    /\ calls = 2
    /\ result = "ok"
    /\ bundle.Type = BundleTypeCode_COLLECTION
    /\ \E i \in DOMAIN bundle.Entry :
           /\ bundle.Entry[i].Resource.Type = "Practitioner"
           /\ bundle.Entry[i].Resource.Id > 3
           /\ bundle.Entry[i].FullUrl = [Type |-> "Practitioner", Id |-> bundle.Entry[i].Resource.Id]

\* The number of results of the orders of an encounter.

\* C19: a returned bundle has one AllergyIntolerance entry per allergy of
\* the record, directly after the Patient entry and in record order (the
\* i-th carries the codes of the i-th allergy), one Encounter entry per
\* encounter, and for every encounter one Procedure entry per procedure, one
\* Condition entry per diagnosis and one Observation entry per result of its
\* orders, also for items that are equal field by field; every Procedure,
\* Condition and Observation entry references the Patient entry and the
\* Encounter entry of the encounter it was listed under.
C19_OneResourcePerItem ==
    result = "ok" =>
        LET patientRef == Ref("Patient", bundle.Entry[1].Resource.Id)
            EncounterRefOf(k) == Ref("Encounter", bundle.Entry[EncounterPosition(bundle, k)].Resource.Id)
            listed == EntriesOfType(bundle, "Procedure") \cup EntriesOfType(bundle, "Condition")
                          \cup EntriesOfType(bundle, "Observation")
        IN  /\ EntriesOfType(bundle, "AllergyIntolerance") = {1 + i : i \in DOMAIN arg.Allergies}
            /\ \A i \in DOMAIN arg.Allergies :
                   LET r == bundle.Entry[1 + i].Resource
                   IN  /\ r.Category = <<TypeHL7ToFHIR(ac, arg.Allergies[i].Type)>>
                       /\ r.Severity = SeverityHL7ToFHIR(ac, arg.Allergies[i].Severity)
                       /\ r.Patient = patientRef
                       /\ r.Id = bundle.Entry[1].Resource.Id + i
            /\ Cardinality(EntriesOfType(bundle, "Encounter")) = Len(arg.Encounters)
            /\ \A k \in DOMAIN arg.Encounters :
                   LET ec == arg.Encounters[k]
                   IN  /\ Cardinality(EntriesUnder(bundle, "Procedure", EncounterRefOf(k)))
                              = Len(ec.Procedures)
                       /\ Cardinality(EntriesUnder(bundle, "Condition", EncounterRefOf(k)))
                              = Len(ec.Diagnoses)
                       /\ Cardinality(EntriesUnder(bundle, "Observation", EncounterRefOf(k)))
                              = Sum([o \in DOMAIN ec.Orders |-> Len(ec.Orders[o].Results)], 1)
            /\ \A i \in listed :
                   /\ bundle.Entry[i].Resource.Subject = patientRef
                   /\ \E k \in DOMAIN arg.Encounters :
                          bundle.Entry[i].Resource.Encounter = EncounterRefOf(k)

\* A bundle of a record with two allergies that differ and an encounter
\* with two procedures that are equal: two Procedure entries.
C19_Witness ==
    /\ result = "ok"
    /\ Len(arg.Allergies) = 2
    /\ arg.Allergies[1] # arg.Allergies[2]
    /\ Len(arg.Encounters) = 1
    /\ Len(arg.Encounters[1].Procedures) = 2
    /\ arg.Encounters[1].Procedures[1] = arg.Encounters[1].Procedures[2]
    /\ Cardinality(EntriesOfType(bundle, "Procedure")) = 2
    /\ Cardinality(EntriesOfType(bundle, "AllergyIntolerance")) = 2

\* C20: an absent clinician or location is no error.  A practitioner() or
\* location() call for a nil pointer returns no entry and no reference and
\* takes no identifier, so that the call takes exactly one identifier per
\* entry of the bundle; the Procedure or Condition of an item without
\* clinician is still made, with no practitioner reference, and linked from
\* the Encounter; the location list of an Encounter has one entry per entry
\* of the location history, without a location reference exactly where the
\* history entry has no location.
C20_AbsentDegradesSilently ==
    [][(calls' # calls /\ arg' # Nil /\ arg'.Person # Nil) =>
           /\ result' = "ok"
           /\ idGenerator' - idGenerator = Len(bundle'.Entry)
           /\ \A i \in DOMAIN lookups' :
                  lookups'[i].value = Nil =>
                      /\ lookups'[i].entry = Nil
                      /\ lookups'[i].ref = Nil
                      /\ lookups'[i].idAfter = lookups'[i].idBefore
           /\ \A k \in DOMAIN arg'.Encounters :
                  LET ec == arg'.Encounters[k]
                      e == bundle'.Entry[EncounterPosition(bundle', k)].Resource
                  IN  /\ Len(e.Location) = Len(ec.LocationHistory)
                      /\ \A l \in DOMAIN ec.LocationHistory :
                             (e.Location[l].Location = Nil) = (ec.LocationHistory[l].Location = Nil)
                      /\ Len(e.Diagnosis) = Len(ec.Procedures) + Len(ec.Diagnoses)
                      /\ \A j \in DOMAIN e.Diagnosis :
                             /\ Targets(bundle', e.Diagnosis[j].Condition) # {}
                             /\ (PractitionerRefAt(bundle', <<k, j>>) = Nil)
                                    = (ItemAt(ec, j).Clinician = Nil)
           /\ Cardinality(EntriesOfType(bundle', "Location"))
                  = Cardinality({i \in DOMAIN lookups' :
                                    lookups'[i].kind = "Location" /\ lookups'[i].entry # Nil})
           /\ Cardinality(EntriesOfType(bundle', "Practitioner"))
                  = Cardinality({i \in DOMAIN lookups' :
                                    lookups'[i].kind = "Practitioner" /\ lookups'[i].entry # Nil})]_vars

\* A bundle of an encounter with a location-history entry without location,
\* a procedure and a diagnosis without clinician: Patient, Procedure,
\* Condition, Encounter.
C20_Witness ==
    /\ result = "ok"
    /\ Len(arg.Encounters) = 1
    /\ arg.Encounters[1].LocationHistory = <<[Location |-> Nil]>>
    /\ arg.Encounters[1].Procedures = <<[Clinician |-> Nil]>>
    /\ arg.Encounters[1].Diagnoses = <<[Clinician |-> Nil]>>
    /\ [i \in DOMAIN bundle.Entry |-> bundle.Entry[i].Resource.Type]
           = <<"Patient", "Procedure", "Condition", "Encounter">>
    /\ bundle.Entry[4].Resource.Location = <<[Location |-> Nil]>>

(***************************************************************************)
(* The messages of a Builder.                                              *)
(***************************************************************************)
\* C17: over any sequence of BuildMessage invocations on one Builder, the
\* first uses the Message Control ID "0", every invocation uses a Message
\* Control ID that no earlier invocation used, and a date strictly later
\* than the date of the invocation before it.
C17_NewControlIDAndLaterDate ==
    /\ \A i \in DOMAIN messages :
           /\ i = 1 => messages[i].MessageControlID = <<"0">>
           /\ \A j \in 1..(i - 1) : messages[j].MessageControlID # messages[i].MessageControlID
    /\ \A i \in 2..Len(messages) : messages[i].date > messages[i - 1].date

(***************************************************************************)
(* The lists of the AllergyGenerator.                                      *)
(***************************************************************************)
\* C18: a list GenerateRandomDistinctAllergies returns is empty or has
\* between 1 and maxAllergies items, no two of them with the same
\* description ID; with percentage 0 it is empty, with percentage 100 it
\* is not.
C18_DistinctAllergies ==
    at = "returned" =>
        /\ Len(generatedAllergies) \in {0} \cup 1..allergyGenerator.maxAllergies
        /\ \A i, j \in DOMAIN generatedAllergies :
               i # j => generatedAllergies[i].Description.ID # generatedAllergies[j].Description.ID
        /\ allergyGenerator.percentage = 0 => generatedAllergies = <<>>
        /\ allergyGenerator.percentage = 100 => generatedAllergies # <<>>

\* A list of two allergies was returned by a generator that picks from
\* coded elements two of which share the ID of the first allergy.
C18_Witness ==
    /\ at = "returned"
    /\ allergyGenerator.percentage = 100
    /\ Len(generatedAllergies) = 2
    /\ Cardinality({a \in allergyGenerator.allergies : a.ID = generatedAllergies[1].Description.ID}) = 2

\* C23: under fair random draws the selection loop is left, and the list
\* returned, whenever the pool has at least maxAllergies distinct IDs; once
\* the loop runs with an allergyCount above the number of distinct IDs of
\* the pool it is never left.
C23_TerminatesIffEnoughDistinctIDs ==
    /\ (at = "loop" /\ Cardinality(PoolIDs) >= allergyGenerator.maxAllergies) ~> (at = "returned")
    /\ []((at = "loop" /\ allergyCount > Cardinality(PoolIDs)) => [](at = "loop"))

\* The loop has selected both IDs of its pool and still wants a third
\* allergy: every further draw is of a selected code.
C23_Witness ==
    /\ at = "loop"
    /\ allergyCount = 3
    /\ Cardinality(PoolIDs) = 2
    /\ selectedCodes = PoolIDs
    /\ Len(generatedAllergies) = 2

(***************************************************************************)
(* Concurrent callers.                                                     *)
(***************************************************************************)
\* C16: when the callers serialize their Generate calls with a mutex of
\* their own, no Location or Doctor value is made into more than one
\* resource over the lifetime of the Bundler, and at most one caller is
\* inside Generate; the Bundler takes part in no locking: the steps of
\* location() and practitioner() never wait for and never change the mutex.
C16_AtMostOncePerValue ==
    /\ external =>
           /\ \A i, j \in DOMAIN materialized :
                  (materialized[i].kind = materialized[j].kind
                       /\ materialized[i].value = materialized[j].value) => i = j
           /\ \A c, d \in Callers : (Active(c) /\ Active(d)) => c = d
           /\ \A c \in Callers : callers[c].pc # "fatal"
    /\ ~external => holder = Nil

\* With the mutex, both callers have returned from a Generate of a record
\* with the same location, and one Location was made.
C16_Witness ==
    /\ external
    /\ \A c \in Callers : callers[c].pc = "done"
    /\ Len(materialized) = 1
    /\ materialized[1].kind = "Location"
    /\ idGenerator = 4

(***************************************************************************)
(* The bundle type.                                                        *)
(***************************************************************************)
\* C21: bundleType gives the Batch code and no error for the empty name and
\* for "BATCH", the Collection code and no error for "COLLECTION", and for
\* every other name, lower-case spellings included, an error together with
\* the INVALID_UNINITIALIZED code.
C21_BundleTypeResolution ==
    \A i \in DOMAIN resolved :
        LET name == resolved[i].bundleType
            r == resolved[i].ret
        IN  /\ name \in {"", "BATCH"} => (r.code = BundleTypeCode_BATCH /\ r.err = Nil)
            /\ name = "COLLECTION" => (r.code = BundleTypeCode_COLLECTION /\ r.err = Nil)
            /\ name \notin {"", "BATCH", "COLLECTION"} =>
                   (r.code = "BundleTypeCode_INVALID_UNINITIALIZED" /\ r.err # Nil)

\* The empty name was resolved to Batch and "batch" was refused.
C21_Witness ==
    /\ \E i \in DOMAIN resolved :
           /\ resolved[i].bundleType = ""
           /\ resolved[i].ret.code = BundleTypeCode_BATCH
    /\ \E i \in DOMAIN resolved :
           /\ resolved[i].bundleType = "batch"
           /\ resolved[i].ret.err # Nil
    /\ \E i \in DOMAIN resolved : resolved[i].bundleType = "COLLECTION"

(***************************************************************************)
(* The built maps and the order of the configuration's keys.               *)
(***************************************************************************)
\* C22: the map newSeverityMap or newTypeMap builds from a valid
\* configuration is the same whatever order the keys are visited in, and
\* maps every alias listed under a key k to the canonical code of
\* upper-cased k, also when an alias is listed under two keys.
C22_MapDeterminedByConfiguration ==
    (ret # Nil /\ ret.fn \in {"newSeverityMap", "newTypeMap"} /\ ret.err = Nil) =>
        LET severity == ret.fn = "newSeverityMap"
            configured == IF severity THEN hc.AllergySeverities ELSE hc.AllergyTypes
            default == IF severity THEN DefaultAllergyIntoleranceSeverityCodeMap
                       ELSE DefaultAllergyIntoleranceCategoryCodeMap
        IN  /\ \A order \in RangeOrders(DOMAIN configured) :
                   ret.value = (IF severity THEN newSeverityMap(configured, order)
                                ELSE newTypeMap(configured, order)).m
            /\ \A k \in DOMAIN configured : \A i \in DOMAIN configured[k] :
                   /\ Has(ret.value, configured[k][i])
                   /\ ret.value[configured[k][i]] = default[ToUpper(k)]

====
